---------------------------- MODULE Spec2Model ----------------------------
(***************************************************************************)
(* A model of scripts/e2e_analyze.py: the log parser, the history store,   *)
(* the baseline calculator, the anomaly detector and the pipeline of       *)
(* main().                                                                 *)
(*                                                                         *)
(* Text is modelled as sequences of whitespace-separated tokens; Python    *)
(* floats are modelled as exact rationals <<numerator, denominator>> in    *)
(* lowest terms; instants are whole days on an integer axis.               *)
(***************************************************************************)
EXTENDS Integers, Sequences, FiniteSets, TLC

(***************************************************************************)
(* Exact rationals (the values Python holds in floats).                    *)
(***************************************************************************)
Abs(x) == IF x < 0 THEN -x ELSE x

RECURSIVE GCD(_, _)
GCD(a, b) == IF b = 0 THEN a ELSE GCD(b, a % b)

\* n/d in lowest terms with a positive denominator (d # 0)
Rat(n, d) ==
    LET g == GCD(Abs(n), Abs(d))
        s == IF d < 0 THEN -1 ELSE 1
    IN  <<(s * n) \div g, (s * d) \div g>>

RatInt(n)     == <<n, 1>>
RatAdd(a, b)  == Rat(a[1] * b[2] + b[1] * a[2], a[2] * b[2])
RatSub(a, b)  == Rat(a[1] * b[2] - b[1] * a[2], a[2] * b[2])
RatMul(a, b)  == Rat(a[1] * b[1], a[2] * b[2])
\* a / b for b # 0
RatDiv(a, b)  == Rat(a[1] * b[2], a[2] * b[1])
RatLT(a, b)   == a[1] * b[2] < b[1] * a[2]
RatGT(a, b)   == RatLT(b, a)
RatLE(a, b)   == ~RatLT(b, a)
RatGE(a, b)   == ~RatLT(a, b)

(***************************************************************************)
(* Folds over sequences.                                                   *)
(***************************************************************************)
RECURSIVE SumSeq(_)
SumSeq(s) == IF s = <<>> THEN 0 ELSE Head(s) + SumSeq(Tail(s))

RECURSIVE RatSumSeq(_)
RatSumSeq(s) == IF s = <<>> THEN RatInt(0) ELSE RatAdd(Head(s), RatSumSeq(Tail(s)))

RECURSIVE Flatten(_)
Flatten(ss) == IF ss = <<>> THEN <<>> ELSE Head(ss) \o Flatten(Tail(ss))

\* the elements of s that satisfy Test, in order (a list comprehension)
SelectSeqIdx(s, keep) ==
    LET F[i \in 0..Len(s)] ==
            IF i = 0 THEN <<>>
            ELSE IF i \in keep THEN Append(F[i - 1], s[i]) ELSE F[i - 1]
    IN  F[Len(s)]

Max(a, b) == IF a > b THEN a ELSE b

(***************************************************************************)
(* Log text.  A line is a sequence of tokens; a file's content is a        *)
(* sequence of lines.  The tables below say what the regular expressions   *)
(* of the parser see in each token.                                        *)
(***************************************************************************)
\* tokens that start with "test/"
TestPathTokens == {"test/a", "test/b", "test/c.e2e.test.ts"}
\* tokens that end with ".e2e.test.ts"
E2eFileTokens  == {"test/c.e2e.test.ts"}
\* tokens of the shape \d+ms, with float(duration_str.replace('ms', ''))
MsTokens       == {"5ms", "7ms"}
MsValue(tok)   == IF tok = "5ms" THEN 5 ELSE IF tok = "7ms" THEN 7 ELSE 0
\* tokens of the shape \d+, with int(...)
NumTokens      == {"0", "1", "2"}
IntOf(tok)     == IF tok = "1" THEN 1 ELSE IF tok = "2" THEN 2 ELSE 0
\* tokens of the shape \d+\.\d+s, with float(...) in seconds
SecTokens      == {"2.0s", "6.0s"}
SecValue(tok)  == IF tok = "2.0s" THEN 2 ELSE IF tok = "6.0s" THEN 6 ELSE 0
\* substring tests of the error counters: the tokens that contain 'API',
\* 'error' (lower-cased), 'timeout' (lower-cased), 'AssertionError', 'ECONNREFUSED'
HasAPI            == {"API"}
HasErrorLower     == {"error", "AssertionError"}
HasTimeoutLower   == {"timeout"}
HasAssertionError == {"AssertionError"}
HasECONNREFUSED   == {"ECONNREFUSED"}

\* the lines the modelled logs are made of
LinePassA   == <<"CHECK", "test/a", "5ms">>
LineFailB   == <<"CROSS", "test/b", "7ms">>
LineFAILC   == <<"FAIL", "test/c.e2e.test.ts", ">", "boom">>
LineSkipA   == <<"-", "test/a", "(skipped)">>
LineTwo     == <<"CROSS", "test/b", "7ms", "CHECK", "test/a", "5ms">>
LineSummary == <<"Tests", "1", "failed", "|", "2", "passed", "|", "0", "skipped", "(3)">>
LineSumHead == <<"Tests", "0", "failed", "|">>
LineSumTail == <<"1", "passed", "|", "1", "skipped">>
LineNoSkip  == <<"Tests", "2", "passed", "(2)">>
LineFailB5  == <<"CROSS", "test/b", "5ms">>
LineFailC7  == <<"CROSS", "test/a", "case:", "x", "7ms">>
LineFailC5  == <<"CROSS", "test/a", "case:", "x", "5ms">>
LineErrors  == <<"API", "error", "timeout", "ECONNREFUSED">>
LineAssert  == <<"AssertionError", "boom">>
LineDur2    == <<"Duration", "2.0s">>
LineDur6    == <<"Duration", "6.0s">>

(***************************************************************************)
(* extract_test_details                                                    *)
(***************************************************************************)
\* r'<mark> (test/.+?)\s+<last>': the leftmost start, then the nearest end.
\* Returns <<>> (no match) or <<name, last>>, name the tokens of group 1.
MarkNameEnd(line, mark, EndTokens) ==
    LET IsEnd(tok) == tok \in EndTokens
        starts == {i \in 1..Len(line) :
                      /\ line[i] = mark
                      /\ i + 1 <= Len(line)
                      /\ line[i + 1] \in TestPathTokens
                      /\ \E j \in (i + 2)..Len(line) : IsEnd(line[j])}
    IN  IF starts = {} THEN <<>>
        ELSE LET i == CHOOSE x \in starts : \A y \in starts : x <= y
                 j == CHOOSE x \in (i + 2)..Len(line) :
                          /\ IsEnd(line[x])
                          /\ \A y \in (i + 2)..(x - 1) : ~IsEnd(line[y])
             IN  <<SubSeq(line, i + 1, j - 1), line[j]>>

\* r'FAIL\s+(test/.+?\.e2e\.test\.ts) >'
MatchFAIL(line) ==
    LET ends(i) == {j \in (i + 1)..(Len(line) - 1) :
                       line[j] \in E2eFileTokens /\ line[j + 1] = ">"}
        starts  == {i \in 1..Len(line) :
                       /\ line[i] = "FAIL"
                       /\ i + 1 <= Len(line)
                       /\ line[i + 1] \in TestPathTokens
                       /\ ends(i) # {}}
    IN  IF starts = {} THEN <<>>
        ELSE LET i == CHOOSE x \in starts : \A y \in starts : x <= y
                 j == CHOOSE x \in ends(i) : \A y \in ends(i) : x <= y
             IN  <<SubSeq(line, i + 1, j), "0ms">>

\* re.search(test_patterns[i], line), i = 0..3
MatchPattern(i, line) ==
    CASE i = 0 -> MarkNameEnd(line, "CHECK", MsTokens)
      [] i = 1 -> MarkNameEnd(line, "CROSS", MsTokens)
      [] i = 2 -> MatchFAIL(line)
      [] i = 3 -> LET m == MarkNameEnd(line, "-", {"(skipped)"})
                  IN  IF m = <<>> THEN <<>> ELSE <<m[1], "0ms">>

PatternStatus(i) == IF i = 0 THEN "passed" ELSE IF i = 3 THEN "skipped" ELSE "failed"

\* parse_duration, on the strings the patterns hand it
parse_duration(duration_str) ==
    IF duration_str \in MsTokens THEN MsValue(duration_str) ELSE 0

\* a slip: no break, every pattern that matches adds its record
LineTests_every_match(line) ==
    LET hits == {i \in 0..3 : MatchPattern(i, line) # <<>>}
        Rec(i) == [name         |-> MatchPattern(i, line)[1],
                   status       |-> PatternStatus(i),
                   duration_ms  |-> IF i \in {0, 1}
                                    THEN parse_duration(MatchPattern(i, line)[2]) ELSE 0,
                   duration_str |-> MatchPattern(i, line)[2]]
    IN  Flatten([i \in 1..4 |-> IF (i - 1) \in hits THEN <<Rec(i - 1)>> ELSE <<>>])

\* the records one line adds to tests: the first pattern that matches, then break
LineTests(line) ==
    LET hits == {i \in 0..3 : MatchPattern(i, line) # <<>>}
    IN  IF hits = {} THEN <<>>
        ELSE LET i == CHOOSE x \in hits : \A y \in hits : x <= y
                 m == MatchPattern(i, line)
             IN  << [name         |-> m[1],
                     status       |-> PatternStatus(i),
                     duration_ms  |-> IF i \in {0, 1} THEN parse_duration(m[2]) ELSE 0,
                     duration_str |-> m[2]] >>

RECURSIVE extract_test_details(_)
extract_test_details(content) ==
    IF content = <<>> THEN <<>>
    ELSE LineTests(Head(content)) \o extract_test_details(Tail(content))

(***************************************************************************)
(* extract_vitest_summary: re.search over the whole content; \s also       *)
(* matches the line breaks, so the content is one token stream.  An       *)
(* optional value is a sequence: None is <<>>, a value x is <<x>>.        *)
(***************************************************************************)
None == <<>>

SummaryAt(toks, i) ==
    /\ i + 8 <= Len(toks)
    /\ toks[i] = "Tests"      /\ toks[i + 1] \in NumTokens /\ toks[i + 2] = "failed"
    /\ toks[i + 3] = "|"      /\ toks[i + 4] \in NumTokens /\ toks[i + 5] = "passed"
    /\ toks[i + 6] = "|"      /\ toks[i + 7] \in NumTokens /\ toks[i + 8] = "skipped"

extract_vitest_summary(content) ==
    LET toks == Flatten(content)
        at   == {i \in 1..Len(toks) : SummaryAt(toks, i)}
    IN  IF at = {} THEN None
        ELSE LET i == CHOOSE x \in at : \A y \in at : x <= y
             IN  << [failed  |-> IntOf(toks[i + 1]),
                     passed  |-> IntOf(toks[i + 4]),
                     skipped |-> IntOf(toks[i + 7])] >>

(***************************************************************************)
(* analyze_log_file.  A file is either Missing (open raises) or a content. *)
(***************************************************************************)
Missing       == [exists |-> FALSE, content |-> <<>>]
File(content) == [exists |-> TRUE, content |-> content]

CountStatus(tests, st) == Cardinality({i \in 1..Len(tests) : tests[i].status = st})

\* f"✗ {name} ({duration_str})" for each failed record, in order
FailureLines(tests) ==
    LET failed == SelectSeqIdx(tests, {i \in 1..Len(tests) : tests[i].status = "failed"})
    IN  [i \in 1..Len(failed) |->
            [name |-> failed[i].name, duration_str |-> failed[i].duration_str]]

\* re.search(r'Duration\s+(\d+\.\d+)s', content)
DurationOf(content) ==
    LET toks == Flatten(content)
        at   == {i \in 1..(Len(toks) - 1) : toks[i] = "Duration" /\ toks[i + 1] \in SecTokens}
    IN  IF at = {} THEN 0
        ELSE SecValue(toks[(CHOOSE x \in at : \A y \in at : x <= y) + 1])

LineHas(line, toks) == \E k \in 1..Len(line) : line[k] \in toks

\* the four counters of the loop over content.split('\n')
ErrorCounts(content) ==
    LET n(lines) == Cardinality(lines)
        all == 1..Len(content)
    IN  [api_errors        |-> n({i \in all : LineHas(content[i], HasAPI)
                                               /\ LineHas(content[i], HasErrorLower)}),
         timeout_errors    |-> n({i \in all : LineHas(content[i], HasTimeoutLower)}),
         assertion_errors  |-> n({i \in all : LineHas(content[i], HasAssertionError)}),
         connection_errors |-> n({i \in all : LineHas(content[i], HasECONNREFUSED)})]

\* the statistics of a readable file, given how the three counts are obtained
FileStats(content, passed, failed, skipped) ==
    LET tests == extract_test_details(content)
        errs  == ErrorCounts(content)
    IN  [passed  |-> passed, failed |-> failed, skipped |-> skipped,
         duration          |-> DurationOf(content),
         api_errors        |-> errs.api_errors,
         timeout_errors    |-> errs.timeout_errors,
         assertion_errors  |-> errs.assertion_errors,
         connection_errors |-> errs.connection_errors,
         failures          |-> FailureLines(tests),
         tests             |-> tests]

\* a slip: the tally runs although the summary already gave the counts
analyze_log_file_always_tally(file) ==
    IF ~file.exists THEN None
    ELSE LET summary == extract_vitest_summary(file.content)
             tests   == extract_test_details(file.content)
             n(k, st) == (IF summary # None THEN summary[1][k] ELSE 0) + CountStatus(tests, st)
         IN  << FileStats(file.content, n("passed", "passed"), n("failed", "failed"),
                          n("skipped", "skipped")) >>

\* None (file not found, or any other exception) or <<stats>>
analyze_log_file(file) ==
    IF ~file.exists THEN None
    ELSE LET summary == extract_vitest_summary(file.content)
             use_summary_counts == summary # None
             tests   == extract_test_details(file.content)
             n(k, st) == IF use_summary_counts THEN summary[1][k] ELSE CountStatus(tests, st)
         IN  << FileStats(file.content, n("passed", "passed"), n("failed", "failed"),
                          n("skipped", "skipped")) >>

(***************************************************************************)
(* Aggregation of the per-file statistics of one run (all_stats, in the    *)
(* order of sorted(log_files)).                                            *)
(***************************************************************************)
Column(all_stats, k)  == [i \in 1..Len(all_stats) |-> all_stats[i][k]]
TotalOf(all_stats, k) == SumSeq(Column(all_stats, k))
\* sum(s['passed'] + s['failed'] + s['skipped'] for s in stats.values())
TotalTests(all_stats) ==
    SumSeq([i \in 1..Len(all_stats) |->
               all_stats[i].passed + all_stats[i].failed + all_stats[i].skipped])
\* a slip: the skipped tests are left out of the total
SuccessRateMax1_without_skipped(all_stats) ==
    RatMul(Rat(TotalOf(all_stats, "passed"),
               Max(TotalOf(all_stats, "passed") + TotalOf(all_stats, "failed"), 1)),
           RatInt(100))

\* (sum(passed) / max(sum(passed + failed + skipped), 1)) * 100
SuccessRateMax1(all_stats) ==
    RatMul(Rat(TotalOf(all_stats, "passed"), Max(TotalTests(all_stats), 1)), RatInt(100))

(***************************************************************************)
(* generate_json_report: the summary of the totals, the tests of all       *)
(* files, and what the call leaves in all_stats.                           *)
(***************************************************************************)
\* f"{x:.2f}" of x = r[1]/r[2] >= 0, in hundredths, the half rounded up
Format2(r) == (2 * 100 * r[1] + r[2]) \div (2 * r[2])

\* lines 235-253
JsonSummary(all_stats) ==
    LET total_passed  == TotalOf(all_stats, "passed")
        total_failed  == TotalOf(all_stats, "failed")
        total_skipped == TotalOf(all_stats, "skipped")
        total_tests   == total_passed + total_failed + total_skipped
        success_rate  == IF total_tests > 0
                         THEN RatMul(Rat(total_passed, total_tests), RatInt(100))
                         ELSE RatInt(0)
    IN  [files_analyzed    |-> Len(all_stats),
         total_passed      |-> total_passed,
         total_failed      |-> total_failed,
         total_skipped     |-> total_skipped,
         api_errors        |-> TotalOf(all_stats, "api_errors"),
         timeout_errors    |-> TotalOf(all_stats, "timeout_errors"),
         assertion_errors  |-> TotalOf(all_stats, "assertion_errors"),
         connection_errors |-> TotalOf(all_stats, "connection_errors"),
         total_tests       |-> total_tests,
         success_rate      |-> success_rate,
         success_rate_text |-> Format2(success_rate)]

\* test_copy = test.copy(); test_copy['log_file'] = os.path.basename(log_file)
TaggedTests(all_stats) ==
    Flatten([i \in 1..Len(all_stats) |->
                [k \in 1..Len(all_stats[i].tests) |->
                    [test |-> all_stats[i].tests[k], log_file |-> i]]])

\* sorted(all_tests, key=lambda x: x['duration_ms'], reverse=True)
SortedByDurationDesc(items) ==
    LET n == Len(items)
        before(i, j) == \/ items[i].test.duration_ms > items[j].test.duration_ms
                        \/ items[i].test.duration_ms = items[j].test.duration_ms /\ i < j
        pos(i) == 1 + Cardinality({j \in 1..n : before(j, i)})
    IN  [k \in 1..n |-> items[CHOOSE i \in 1..n : pos(i) = k]]

\* a slip: the file name is written into the test records of all_stats
generate_json_report_tags_in_place(all_stats) ==
    [summary   |-> JsonSummary(all_stats),
     all_tests |-> SortedByDurationDesc(TaggedTests(all_stats)),
     all_stats |-> [i \in 1..Len(all_stats) |->
                       [all_stats[i] EXCEPT !.tests =
                           [k \in 1..Len(all_stats[i].tests) |->
                               [name         |-> all_stats[i].tests[k].name,
                                status       |-> all_stats[i].tests[k].status,
                                duration_ms  |-> all_stats[i].tests[k].duration_ms,
                                duration_str |-> all_stats[i].tests[k].duration_str,
                                log_file     |-> i]]]]]

\* the report, and all_stats after the call: nothing is assigned to it or
\* to a record in it
generate_json_report(all_stats) ==
    [summary   |-> JsonSummary(all_stats),
     all_tests |-> SortedByDurationDesc(TaggedTests(all_stats)),
     all_stats |-> all_stats]

(***************************************************************************)
(* The history store: the file e2e-history.json of the log directory.      *)
(*   absent      os.path.exists is false                                   *)
(*   corrupt     json.load raises JSONDecodeError                          *)
(*   unreadable  open raises an OSError other than FileNotFoundError       *)
(*               (no read permission, a directory of that name)            *)
(*   ok          a JSON array of entries                                   *)
(***************************************************************************)
RETENTION_DAYS == 30

HistFile(status, entries) == [status |-> status, entries |-> entries]

\* what a call ends with: an uncaught exception, or a value
Raised      == [raised |-> TRUE,  value |-> <<>>]
Returned(v) == [raised |-> FALSE, value |-> v]

load_historical_data(file) ==
    CASE file.status = "absent"     -> Returned(<<>>)
      [] file.status = "corrupt"    -> Returned(<<>>)
      [] file.status = "unreadable" -> Raised
      [] file.status = "ok"         -> Returned(file.entries)

\* the record save_historical_data builds from the run's statistics
HistoryRecord(all_stats, now) ==
    [timestamp         |-> now,
     total_tests       |-> TotalTests(all_stats),
     total_passed      |-> TotalOf(all_stats, "passed"),
     total_failed      |-> TotalOf(all_stats, "failed"),
     total_skipped     |-> TotalOf(all_stats, "skipped"),
     success_rate      |-> SuccessRateMax1(all_stats),
     api_errors        |-> TotalOf(all_stats, "api_errors"),
     timeout_errors    |-> TotalOf(all_stats, "timeout_errors"),
     assertion_errors  |-> TotalOf(all_stats, "assertion_errors"),
     connection_errors |-> TotalOf(all_stats, "connection_errors"),
     total_duration    |-> TotalOf(all_stats, "duration"),
     files_analyzed    |-> Len(all_stats),
     failures          |-> Flatten(Column(all_stats, "failures"))]

\* [h for h in history if fromisoformat(h['timestamp']) > now - timedelta(days)]
NewerThan(history, now, days) ==
    SelectSeqIdx(history, {i \in 1..Len(history) : history[i].timestamp > now - days})

\* a slip: the new record is written alone, the loaded history is dropped
SavedHistory_only_record(history, all_stats, now) ==
    <<HistoryRecord(all_stats, now)>>

\* a slip: the retention test keeps the entry that is exactly 30 days old
SavedHistory_keeps_boundary(history, all_stats, now) ==
    NewerThan(Append(history, HistoryRecord(all_stats, now)), now, RETENTION_DAYS + 1)

\* a slip: the record is put in front of the loaded history
SavedHistory_prepends(history, all_stats, now) ==
    NewerThan(<<HistoryRecord(all_stats, now)>> \o history, now, RETENTION_DAYS)

\* what save_historical_data writes, given the history it loaded
SavedHistory(history, all_stats, now) ==
    NewerThan(Append(history, HistoryRecord(all_stats, now)), now, RETENTION_DAYS)

(***************************************************************************)
(* calculate_baseline.  A dict is a function on its keys; {} is EmptyDict. *)
(***************************************************************************)
EmptyDict == [k \in {} |-> 0]

\* statistics.mean of a non-empty list of rationals
Mean(vals) == RatDiv(RatSumSeq(vals), RatInt(Len(vals)))
MeanOfInts(history, k) == Mean([i \in 1..Len(history) |-> RatInt(history[i][k])])

BaselineOver(recent_history) ==
    [avg_success_rate      |-> Mean(Column(recent_history, "success_rate")),
     avg_api_errors        |-> MeanOfInts(recent_history, "api_errors"),
     avg_timeout_errors    |-> MeanOfInts(recent_history, "timeout_errors"),
     avg_assertion_errors  |-> MeanOfInts(recent_history, "assertion_errors"),
     avg_connection_errors |-> MeanOfInts(recent_history, "connection_errors"),
     avg_duration          |-> MeanOfInts(recent_history, "total_duration"),
     sample_size           |-> Len(recent_history)]

\* a slip: the window test is >= instead of >
calculate_baseline_inclusive(history, days, now) ==
    IF history = <<>> THEN EmptyDict
    ELSE LET recent_history == NewerThan(history, now, days + 1)
         IN  IF recent_history = <<>> THEN EmptyDict ELSE BaselineOver(recent_history)

calculate_baseline(history, days, now) ==
    IF history = <<>> THEN EmptyDict
    ELSE LET recent_history == NewerThan(history, now, days)
         IN  IF recent_history = <<>> THEN EmptyDict ELSE BaselineOver(recent_history)

(***************************************************************************)
(* detect_anomalies                                                        *)
(***************************************************************************)
\* a slip: the connection errors get the threshold of the api errors
thresholds_connection_100 ==
    [success_rate |-> 15, api_errors |-> 100, timeout_errors |-> 100,
     assertion_errors |-> 50, connection_errors |-> 100, duration |-> 50]

thresholds ==
    [success_rate |-> 15, api_errors |-> 100, timeout_errors |-> 100,
     assertion_errors |-> 50, connection_errors |-> 200, duration |-> 50]

\* f'avg_{error_type}' and f'{error_type}_spike'
AvgKey(error_type) ==
    CASE error_type = "api_errors"        -> "avg_api_errors"
      [] error_type = "timeout_errors"    -> "avg_timeout_errors"
      [] error_type = "assertion_errors"  -> "avg_assertion_errors"
      [] error_type = "connection_errors" -> "avg_connection_errors"
SpikeType(error_type) ==
    CASE error_type = "api_errors"        -> "api_errors_spike"
      [] error_type = "timeout_errors"    -> "timeout_errors_spike"
      [] error_type = "assertion_errors"  -> "assertion_errors_spike"
      [] error_type = "connection_errors" -> "connection_errors_spike"

current_totals(current_stats) ==
    [success_rate      |-> SuccessRateMax1(current_stats),
     api_errors        |-> TotalOf(current_stats, "api_errors"),
     timeout_errors    |-> TotalOf(current_stats, "timeout_errors"),
     assertion_errors  |-> TotalOf(current_stats, "assertion_errors"),
     connection_errors |-> TotalOf(current_stats, "connection_errors"),
     duration          |-> TotalOf(current_stats, "duration")]

\* ((current - baseline) / baseline) * 100, for baseline > 0
IncreasePct(current, baseline_value) ==
    RatMul(RatDiv(RatSub(RatInt(current), baseline_value), baseline_value), RatInt(100))

\* a slip: a drop of exactly the threshold is reported
SuccessRateCheck_inclusive(totals, baseline) ==
    IF "avg_success_rate" \in DOMAIN baseline
    THEN LET success_drop == RatSub(baseline.avg_success_rate, totals.success_rate)
         IN  IF RatGE(success_drop, RatInt(thresholds.success_rate))
             THEN << [type     |-> "success_rate_drop",
                      severity |-> IF RatGT(success_drop, RatInt(25)) THEN "high" ELSE "medium",
                      current  |-> totals.success_rate,
                      baseline |-> baseline.avg_success_rate] >>
             ELSE <<>>
    ELSE <<>>

SuccessRateCheck(totals, baseline) ==
    IF "avg_success_rate" \in DOMAIN baseline
    THEN LET success_drop == RatSub(baseline.avg_success_rate, totals.success_rate)
         IN  IF RatGT(success_drop, RatInt(thresholds.success_rate))
             THEN << [type     |-> "success_rate_drop",
                      severity |-> IF RatGT(success_drop, RatInt(25)) THEN "high" ELSE "medium",
                      current  |-> totals.success_rate,
                      baseline |-> baseline.avg_success_rate] >>
             ELSE <<>>
    ELSE <<>>

\* a slip: an increase of exactly the threshold is reported
ErrorCheck_inclusive(error_type, totals, baseline) ==
    IF AvgKey(error_type) \in DOMAIN baseline /\ RatGT(baseline[AvgKey(error_type)], RatInt(0))
    THEN LET current_value  == totals[error_type]
             baseline_value == baseline[AvgKey(error_type)]
             increase_pct   == IncreasePct(current_value, baseline_value)
         IN  IF RatGE(increase_pct, RatInt(thresholds[error_type]))
             THEN << [type         |-> SpikeType(error_type),
                      severity     |-> IF RatGT(increase_pct, RatInt(200)) THEN "high" ELSE "medium",
                      current      |-> RatInt(current_value),
                      baseline     |-> baseline_value,
                      increase_pct |-> increase_pct] >>
             ELSE <<>>
    ELSE <<>>

ErrorCheck(error_type, totals, baseline) ==
    IF AvgKey(error_type) \in DOMAIN baseline /\ RatGT(baseline[AvgKey(error_type)], RatInt(0))
    THEN LET current_value  == totals[error_type]
             baseline_value == baseline[AvgKey(error_type)]
             increase_pct   == IncreasePct(current_value, baseline_value)
         IN  IF RatGT(increase_pct, RatInt(thresholds[error_type]))
             THEN << [type         |-> SpikeType(error_type),
                      severity     |-> IF RatGT(increase_pct, RatInt(200)) THEN "high" ELSE "medium",
                      current      |-> RatInt(current_value),
                      baseline     |-> baseline_value,
                      increase_pct |-> increase_pct] >>
             ELSE <<>>
    ELSE <<>>

\* a slip: an increase of exactly 100 percent is still medium
DurationCheck_medium_at_100(totals, baseline) ==
    IF "avg_duration" \in DOMAIN baseline /\ RatGT(baseline.avg_duration, RatInt(0))
    THEN LET duration_increase == IncreasePct(totals.duration, baseline.avg_duration)
         IN  IF RatGT(duration_increase, RatInt(thresholds.duration))
             THEN << [type         |-> "duration_increase",
                      severity     |-> IF RatLE(duration_increase, RatInt(100))
                                       THEN "medium" ELSE "high",
                      current      |-> RatInt(totals.duration),
                      baseline     |-> baseline.avg_duration,
                      increase_pct |-> duration_increase] >>
             ELSE <<>>
    ELSE <<>>

DurationCheck(totals, baseline) ==
    IF "avg_duration" \in DOMAIN baseline /\ RatGT(baseline.avg_duration, RatInt(0))
    THEN LET duration_increase == IncreasePct(totals.duration, baseline.avg_duration)
         IN  IF RatGT(duration_increase, RatInt(thresholds.duration))
             THEN << [type         |-> "duration_increase",
                      severity     |-> IF RatLT(duration_increase, RatInt(100))
                                       THEN "medium" ELSE "high",
                      current      |-> RatInt(totals.duration),
                      baseline     |-> baseline.avg_duration,
                      increase_pct |-> duration_increase] >>
             ELSE <<>>
    ELSE <<>>

\* a slip: the duration check runs before the error checks
detect_anomalies_duration_first(current_stats, baseline) ==
    IF DOMAIN baseline = {} THEN <<>>
    ELSE LET totals == current_totals(current_stats)
         IN  SuccessRateCheck(totals, baseline)
             \o DurationCheck(totals, baseline)
             \o ErrorCheck("api_errors", totals, baseline)
             \o ErrorCheck("timeout_errors", totals, baseline)
             \o ErrorCheck("assertion_errors", totals, baseline)
             \o ErrorCheck("connection_errors", totals, baseline)

detect_anomalies(current_stats, baseline) ==
    IF DOMAIN baseline = {} THEN <<>>
    ELSE LET totals == current_totals(current_stats)
         IN  SuccessRateCheck(totals, baseline)
             \o ErrorCheck("api_errors", totals, baseline)
             \o ErrorCheck("timeout_errors", totals, baseline)
             \o ErrorCheck("assertion_errors", totals, baseline)
             \o ErrorCheck("connection_errors", totals, baseline)
             \o DurationCheck(totals, baseline)

(***************************************************************************)
(* detect_flaky_tests                                                      *)
(***************************************************************************)
\* tokens that contain ':'
ColonTokens == {"case:"}

\* re.search(r'test/[^:]+', failure) on the text "✗ <name> (<duration_str>)":
\* from the name's "test/" up to the first ':' or the end of the text
test_key(failure) ==
    LET text  == failure.name \o <<failure.duration_str>>
        colon == {i \in 1..Len(text) : text[i] \in ColonTokens}
    IN  IF colon = {} THEN text
        ELSE SubSeq(text, 1, CHOOSE x \in colon : \A y \in colon : x <= y)

\* sorted(items, key=rate, reverse=True): descending, equal keys in their order
SortedByRateDesc(items) ==
    LET n == Len(items)
        before(i, j) == \/ RatGT(items[i].failure_rate, items[j].failure_rate)
                        \/ items[i].failure_rate = items[j].failure_rate /\ i < j
        pos(i) == 1 + Cardinality({j \in 1..n : before(j, i)})
    IN  [k \in 1..n |-> items[CHOOSE i \in 1..n : pos(i) = k]]

\* a slip: the two ends of the range are excluded
InFlakyRange_exclusive(failure_rate) ==
    RatLT(Rat(1, 5), failure_rate) /\ RatLT(failure_rate, Rat(4, 5))

\* if 0.2 <= failure_rate <= 0.8
InFlakyRange(failure_rate) ==
    RatLE(Rat(1, 5), failure_rate) /\ RatLE(failure_rate, Rat(4, 5))

\* a slip: a rate of exactly one half is medium
FlakySeverity_medium_at_half(failure_rate) ==
    IF RatGT(failure_rate, Rat(1, 2)) THEN "high" ELSE "medium"

\* a slip: the whole flaky range is medium
FlakySeverity_medium_in_range(failure_rate) ==
    IF RatGT(failure_rate, Rat(4, 5)) THEN "high" ELSE "medium"

\* 'high' if failure_rate >= 0.5 else 'medium'
FlakySeverity(failure_rate) ==
    IF RatGE(failure_rate, Rat(1, 2)) THEN "high" ELSE "medium"

detect_flaky_tests(history, days, now) ==
    IF Len(history) < 3 THEN <<>>
    ELSE LET recent_history == NewerThan(history, now, days)
         IN  IF Len(recent_history) < 3 THEN <<>>
             ELSE LET all_failures == Flatten(Column(recent_history, "failures"))
                      keys == [i \in 1..Len(all_failures) |-> test_key(all_failures[i])]
                      \* the keys of failure_counts, in insertion order
                      tests == SelectSeqIdx(keys, {i \in 1..Len(keys) :
                                                      \A j \in 1..(i - 1) : keys[j] # keys[i]})
                      total_runs == Len(recent_history)
                      count(t) == Cardinality({i \in 1..Len(keys) : keys[i] = t})
                      rate(t)  == Rat(count(t), total_runs)
                      flaky == SelectSeqIdx(tests, {i \in 1..Len(tests) :
                                                       InFlakyRange(rate(tests[i]))})
                  IN  SortedByRateDesc(
                          [i \in 1..Len(flaky) |->
                              [test         |-> flaky[i],
                               failures     |-> count(flaky[i]),
                               total_runs   |-> total_runs,
                               failure_rate |-> RatMul(rate(flaky[i]), RatInt(100)),
                               severity     |-> FlakySeverity(rate(flaky[i]))]])

(***************************************************************************)
(* Bounds of the model.                                                    *)
(***************************************************************************)
\* lines per log file given to analyze_log_file on its own
MaxLines == 3
\* entries of the history given to calculate_baseline on its own
MaxHistory == 2
\* log files of the statistics given to detect_anomalies on its own
MaxFiles == 2
\* days the clock of the pipeline advances
MaxClock == 1
\* runs of main, one after the other
MaxRuns == 2
\* entries of the history given to detect_flaky_tests on its own
MaxFlakyHistory == 5
\* passed and failed counts of the runs given to the threshold checks
MaxCount == 5
\* error lines of one category in a run given to the threshold checks
MaxErrors == 4
\* seconds of the run given to the threshold checks
MaxDuration == 6

Lines == {LinePassA, LineFailB, LineFAILC, LineSkipA, LineTwo, LineSummary,
          LineSumHead, LineSumTail, LineNoSkip, LineErrors, LineAssert,
          LineDur2, LineDur6}

Contents == UNION {[1..n -> Lines] : n \in 0..MaxLines}
LogFiles == {Missing} \cup {File(c) : c \in Contents}

\* the logs the runs of the pipeline analyze
LogGreen == File(<<LinePassA, LineDur2>>)
LogRed   == File(<<LineFailB, LinePassA, LineErrors>>)
LogSlow  == File(<<LineSkipA, LineAssert, LineDur6>>)
LogStorm == File(<<LineErrors, LineErrors, LineErrors>>)

StatsOf(file) == analyze_log_file(file)[1]

\* a history entry as an earlier run on that day would have saved it
Entry(file, day) == HistoryRecord(<<StatsOf(file)>>, day)

(***************************************************************************)
(* State.                                                                  *)
(***************************************************************************)
Procs == {1, 2}

VARIABLES
    \* one call of analyze_log_file
    log_file,       \* the file at the path it is given
    parse_pc,       \* "call" or "return"
    stats,          \* the value returned
    \* one call of calculate_baseline
    b_history, b_days, b_now,
    b_pc,           \* "call" or "return"
    b_result,       \* the dict returned
    \* one call of detect_anomalies
    a_current, a_baseline,
    a_pc,           \* "call" or "return"
    a_result,       \* the list returned
    \* one call of detect_flaky_tests
    f_history, f_days, f_now,
    f_pc,           \* "call" or "return"
    f_result,       \* the list returned
    \* the totals of one all_stats, taken once for the report and again
    g_stats,        \* the all_stats given
    g_pc,           \* "first", "second" or "done"
    g_totals,       \* the totals computed so far, in order
    \* runs of main over one log directory
    clock,          \* datetime.now(timezone.utc), in days
    hist_file,      \* e2e-history.json
    runs,           \* runs started so far
    pc,             \* per process: where its run of main stands
    args,           \* per process: the invocation (source of the logs, flags)
    temp_file,      \* per process: the temporary file of --stdin exists
    all_stats,      \* per process: main's all_stats
    history,        \* per process: main's history
    baseline,       \* per process: main's baseline
    anomalies,      \* per process: main's anomalies
    flaky_tests,    \* per process: main's flaky_tests
    save_history,   \* per process: save_historical_data's history
    exit_code,      \* per process: the exit status, -1 while running
    events,         \* per process: what the run has done so far, in order
    overlap,        \* some run started while another one was under way
    \* one call of a validator of validate_workflow.py
    environ,        \* os.environ, the variables the validators read
    msg,            \* validate_commit_message_text: the message
    msg_parts,      \* how the message was written
    allow_no_issue, \* validate_commit_message_text: the argument
    msg_pc,         \* "call" or "return"
    msg_ok,         \* the value returned
    issue,          \* validate_issue_closure: what gh issue view gives
    issue_pc,       \* "call" or "return"
    closure_ok,     \* the value returned
    \* one call of generate_enhanced_text_report
    r_stats,        \* the all_stats given
    r_flaky,        \* the flaky_tests given
    r_pc,           \* "call" or "return"
    r_report        \* the lines of the report

parse_vars == <<log_file, parse_pc, stats>>
base_vars  == <<b_history, b_days, b_now, b_pc, b_result>>
anom_vars  == <<a_current, a_baseline, a_pc, a_result>>
local_vars == <<pc, args, temp_file, all_stats, history, baseline, anomalies,
                flaky_tests, save_history, exit_code, events>>
main_vars  == <<clock, hist_file, runs, overlap, local_vars>>
flaky_vars == <<f_history, f_days, f_now, f_pc, f_result>>
agg_vars   == <<g_stats, g_pc, g_totals>>
build_vars  == <<environ, msg, allow_no_issue, msg_parts, msg_pc, msg_ok, issue, issue_pc, closure_ok>>
report_vars == <<r_stats, r_flaky, r_pc, r_report>>
extra_vars  == <<build_vars, report_vars>>
vars == <<parse_vars, base_vars, anom_vars, main_vars, flaky_vars, agg_vars, extra_vars>>

\* the parts of the state a specification does not use
ParseIdle == log_file = Missing /\ parse_pc = "idle" /\ stats = None
BaseIdle  == /\ b_history = <<>> /\ b_days = 0 /\ b_now = 0
             /\ b_pc = "idle" /\ b_result = EmptyDict
AnomIdle  == a_current = <<>> /\ a_baseline = EmptyDict /\ a_pc = "idle" /\ a_result = <<>>
FlakyIdle == /\ f_history = <<>> /\ f_days = 0 /\ f_now = 0
             /\ f_pc = "idle" /\ f_result = <<>>
AggIdle   == g_stats = <<>> /\ g_pc = "idle" /\ g_totals = <<>>
NoEnviron == [ALLOW_NO_ISSUE |-> <<>>, ALLOWED_PREFIXES |-> <<>>, AC_STRICT_MODE |-> "auto",
              REQUIRE_SECTIONS |-> <<>>,
              REQUIRE_VERIFICATION |-> <<"f", "a", "l", "s", "e">>]
NoParts   == [lead |-> <<>>, head |-> [text |-> <<>>, auto |-> FALSE, prefix |-> "none", cc |-> FALSE],
              sep |-> <<>>, subject |-> <<>>, ref |-> [text |-> <<>>, is_ref |-> FALSE],
              second |-> [text |-> <<>>, is_ref |-> FALSE]]
NoIssue   == [gh |-> "ok", labels |-> <<>>, body |-> <<>>]
BuildIdle == /\ environ = NoEnviron
             /\ msg = <<>> /\ msg_parts = NoParts /\ allow_no_issue = FALSE
             /\ msg_pc = "idle" /\ msg_ok = FALSE
             /\ issue = NoIssue /\ issue_pc = "idle" /\ closure_ok = FALSE
ReportIdle == r_stats = <<>> /\ r_flaky = <<>> /\ r_pc = "idle" /\ r_report = <<>>
ExtraIdle == BuildIdle /\ ReportIdle
NoArgs    == [source |-> "none", files |-> <<>>, no_save |-> FALSE, basic |-> FALSE]
MainIdle  ==
    /\ clock = 0 /\ hist_file = HistFile("absent", <<>>) /\ runs = 0 /\ overlap = FALSE
    /\ pc = [p \in Procs |-> "idle"]
    /\ args = [p \in Procs |-> NoArgs]
    /\ temp_file = [p \in Procs |-> FALSE]
    /\ all_stats = [p \in Procs |-> <<>>]
    /\ history = [p \in Procs |-> <<>>]
    /\ baseline = [p \in Procs |-> EmptyDict]
    /\ anomalies = [p \in Procs |-> <<>>]
    /\ flaky_tests = [p \in Procs |-> <<>>]
    /\ save_history = [p \in Procs |-> <<>>]
    /\ exit_code = [p \in Procs |-> -1]
    /\ events = [p \in Procs |-> <<>>]

(***************************************************************************)
(* SpecParse: one call of analyze_log_file on any modelled file.           *)
(***************************************************************************)
InitParse ==
    /\ log_file \in LogFiles
    /\ parse_pc = "call"
    /\ stats = None
    /\ BaseIdle /\ AnomIdle /\ MainIdle /\ FlakyIdle /\ AggIdle /\ ExtraIdle

AnalyzeLogFile ==
    /\ parse_pc = "call"
    /\ stats' = analyze_log_file(log_file)
    /\ parse_pc' = "return"
    /\ UNCHANGED <<log_file, base_vars, anom_vars, main_vars, flaky_vars, agg_vars, extra_vars>>

NextParse == AnalyzeLogFile

SpecParse == InitParse /\ [][NextParse]_vars

(***************************************************************************)
(* SpecBaseline: one call of calculate_baseline, on any history of up to   *)
(* MaxHistory entries saved around the edge of the window.                 *)
(***************************************************************************)
\* --baseline-days and --flaky-days: default=7
DEFAULT_DAYS == 7

SeqsUpTo(S, n) == UNION {[1..k -> S] : k \in 0..n}

BaselineEntries ==
    {Entry(f, d) : f \in {LogGreen, LogRed, LogSlow},
                   d \in {-DEFAULT_DAYS - 1, -DEFAULT_DAYS, -DEFAULT_DAYS + 1, -1, 0}}

InitBaseline ==
    /\ b_history \in SeqsUpTo(BaselineEntries, MaxHistory)
    /\ b_days \in {1, DEFAULT_DAYS}
    /\ b_now = 0
    /\ b_pc = "call"
    /\ b_result = EmptyDict
    /\ ParseIdle /\ AnomIdle /\ MainIdle /\ FlakyIdle /\ AggIdle /\ ExtraIdle

CalculateBaseline ==
    /\ b_pc = "call"
    /\ b_result' = calculate_baseline(b_history, b_days, b_now)
    /\ b_pc' = "return"
    /\ UNCHANGED <<b_history, b_days, b_now, parse_vars, anom_vars, main_vars, flaky_vars, agg_vars, extra_vars>>

NextBaseline == CalculateBaseline

SpecBaseline == InitBaseline /\ [][NextBaseline]_vars

(***************************************************************************)
(* SpecAnomaly: one call of detect_anomalies, on the statistics of up to   *)
(* MaxFiles log files and on the empty baseline or the baseline of up to   *)
(* MaxHistory entries.                                                     *)
(***************************************************************************)
RunLogs == {LogGreen, LogRed, LogSlow, LogStorm}

AnomalyBaselines ==
    {calculate_baseline(h, DEFAULT_DAYS, 0) :
        h \in SeqsUpTo({Entry(f, -1) : f \in RunLogs}, MaxHistory)}

InitAnomaly ==
    /\ a_current \in SeqsUpTo({StatsOf(f) : f \in RunLogs}, MaxFiles)
    /\ a_baseline \in AnomalyBaselines
    /\ a_pc = "call"
    /\ a_result = <<>>
    /\ ParseIdle /\ BaseIdle /\ MainIdle /\ FlakyIdle /\ AggIdle /\ ExtraIdle

DetectAnomalies ==
    /\ a_pc = "call"
    /\ a_result' = detect_anomalies(a_current, a_baseline)
    /\ a_pc' = "return"
    /\ UNCHANGED <<a_current, a_baseline, parse_vars, base_vars, main_vars, flaky_vars, agg_vars, extra_vars>>

NextAnomaly == DetectAnomalies

SpecAnomaly == InitAnomaly /\ [][NextAnomaly]_vars

(***************************************************************************)
(* SpecThreshold: one call of detect_anomalies on runs whose numbers lie   *)
(* on, just below and just above the thresholds.  The statistics are       *)
(* those analyze_log_file returns for a log with a summary line, error     *)
(* lines and a Duration line; the baseline is calculate_baseline over      *)
(* the entries that one or two earlier runs saved the day before.          *)
(***************************************************************************)
ErrorTypes == {"api_errors", "timeout_errors", "assertion_errors", "connection_errors"}

\* the stats dict of lines 107-119, filled by lines 124-165
RunStats(passed, failed, errs, duration) ==
    [passed  |-> passed, failed |-> failed, skipped |-> 0,
     duration          |-> duration,
     api_errors        |-> errs["api_errors"],
     timeout_errors    |-> errs["timeout_errors"],
     assertion_errors  |-> errs["assertion_errors"],
     connection_errors |-> errs["connection_errors"],
     failures          |-> <<>>,
     tests             |-> <<>>]

\* k matching lines for the categories of hit, none for the others
ErrorsOf(hit, k) == [c \in ErrorTypes |-> IF c \in hit THEN k ELSE 0]

BaselineOfRuns(earlier) ==
    calculate_baseline([i \in 1..Len(earlier) |-> HistoryRecord(<<earlier[i]>>, -1)],
                       DEFAULT_DAYS, 0)

\* runs that differ in their passed and failed counts
CountRuns ==
    {RunStats(p, f, ErrorsOf({}, 0), 0) : p \in 0..MaxCount, f \in 0..MaxCount}
\* runs that differ in their error lines
ErrorRuns ==
    {RunStats(1, 0, ErrorsOf(hit, k), 0) : hit \in SUBSET ErrorTypes, k \in 1..MaxErrors}
EarlierErrorRuns ==
    {RunStats(1, 0, ErrorsOf(ErrorTypes, k), 0) : k \in 0..(MaxErrors \div 2)}
\* runs that differ in their duration
DurationRuns ==
    {RunStats(1, 0, ErrorsOf({}, 0), d) : d \in 0..MaxDuration}
EarlierDurationRuns ==
    {RunStats(1, 0, ErrorsOf({}, 0), d) : d \in 0..(MaxDuration \div 2)}

InitThreshold ==
    /\ \/ /\ a_current \in {<<r>> : r \in CountRuns}
          /\ a_baseline \in {BaselineOfRuns(<<e>>) : e \in CountRuns}
       \/ /\ a_current \in {<<r>> : r \in ErrorRuns}
          /\ a_baseline \in {BaselineOfRuns(h) : h \in SeqsUpTo(EarlierErrorRuns, 2) \ {<<>>}}
       \/ /\ a_current \in {<<r>> : r \in DurationRuns} \cup
                           {<<r, q>> : r \in DurationRuns, q \in DurationRuns}
          /\ a_baseline \in {BaselineOfRuns(h) : h \in SeqsUpTo(EarlierDurationRuns, 2) \ {<<>>}}
    /\ a_pc = "call"
    /\ a_result = <<>>
    /\ ParseIdle /\ BaseIdle /\ MainIdle /\ FlakyIdle /\ AggIdle /\ ExtraIdle

SpecThreshold == InitThreshold /\ [][NextAnomaly]_vars

(***************************************************************************)
(* SpecFlaky: one call of detect_flaky_tests on a history of up to         *)
(* MaxFlakyHistory entries, each saved by a run over one log: a log        *)
(* without a failure, a log where test/b fails (after 7ms or after 5ms),   *)
(* a log where a test with a colon in its name fails (after 7ms or after   *)
(* 5ms).  One entry is as old as the window is long, the others are of     *)
(* the day before.                                                         *)
(***************************************************************************)
FlakyLogs ==
    {File(<<l>>) : l \in {LinePassA, LineFailB, LineFailB5, LineFailC7, LineFailC5}}

FlakyEntries ==
    {Entry(f, -1) : f \in FlakyLogs} \cup {Entry(f, -DEFAULT_DAYS) : f \in {File(<<LineFailB>>)}}

InitFlaky ==
    /\ f_history \in SeqsUpTo(FlakyEntries, MaxFlakyHistory)
    /\ f_days = DEFAULT_DAYS
    /\ f_now = 0
    /\ f_pc = "call"
    /\ f_result = <<>>
    /\ ParseIdle /\ BaseIdle /\ AnomIdle /\ MainIdle /\ AggIdle /\ ExtraIdle

DetectFlakyTests ==
    /\ f_pc = "call"
    /\ f_result' = detect_flaky_tests(f_history, f_days, f_now)
    /\ f_pc' = "return"
    /\ UNCHANGED <<f_history, f_days, f_now, parse_vars, base_vars, anom_vars,
                   main_vars, agg_vars, extra_vars>>

NextFlaky == DetectFlakyTests

SpecFlaky == InitFlaky /\ [][NextFlaky]_vars

(***************************************************************************)
(* SpecAggregate: the totals of one all_stats of up to MaxFiles files,     *)
(* taken by generate_json_report, by generate_json_report again, and by    *)
(* the record of save_historical_data.                                     *)
(***************************************************************************)
AggregateLogs == RunLogs \cup {File(<<>>), File(<<LineSummary>>), File(<<LineNoSkip, LineTwo>>)}

InitAggregate ==
    /\ g_stats \in SeqsUpTo({StatsOf(f) : f \in AggregateLogs}, MaxFiles)
    /\ g_pc = "first"
    /\ g_totals = <<>>
    /\ ParseIdle /\ BaseIdle /\ AnomIdle /\ MainIdle /\ FlakyIdle /\ ExtraIdle

GenerateJsonReport ==
    /\ g_pc \in {"first", "second"}
    /\ LET report == generate_json_report(g_stats)
       IN  /\ g_totals' = Append(g_totals, report.summary)
           /\ g_stats' = report.all_stats
    /\ g_pc' = IF g_pc = "first" THEN "second" ELSE "record"
    /\ UNCHANGED <<parse_vars, base_vars, anom_vars, main_vars, flaky_vars, extra_vars>>

BuildRecord ==
    /\ g_pc = "record"
    /\ g_totals' = Append(g_totals, HistoryRecord(g_stats, 0))
    /\ g_pc' = "done"
    /\ UNCHANGED <<g_stats, parse_vars, base_vars, anom_vars, main_vars, flaky_vars, extra_vars>>

NextAggregate == GenerateJsonReport \/ BuildRecord

SpecAggregate == InitAggregate /\ [][NextAggregate]_vars

(***************************************************************************)
(* main.  A run goes through MainSteps in order; the steps that touch the  *)
(* history file or the clock are actions of their own, so that runs of     *)
(* several processes interleave between them.  A write of the file is one  *)
(* step.  An uncaught exception ends the run with exit status 1.           *)
(***************************************************************************)
\* a slip: the history is saved before it is loaded for the baseline
MainSteps_save_first ==
    <<"analyze", "save", "load", "baseline", "detect", "report", "cleanup", "exit">>

\* a slip: the history is saved after the report is out
MainSteps_save_last ==
    <<"analyze", "load", "baseline", "detect", "report", "save", "cleanup", "exit">>

MainSteps ==
    <<"analyze", "load", "baseline", "detect", "save", "report", "cleanup", "exit">>

StepAfter(step) ==
    MainSteps[1 + CHOOSE i \in 1..Len(MainSteps) : MainSteps[i] = step]

\* the log files of the runs: a directory listing (a file of it may be gone
\* or unreadable when it is opened), the temporary file of --stdin
FileLists == {<<>>, <<LogGreen>>, <<LogRed>>, <<LogSlow, Missing>>, <<Missing>>}

Invocations ==
    {[source |-> "dir", files |-> fl, no_save |-> ns, basic |-> b] :
        fl \in FileLists, ns \in BOOLEAN, b \in BOOLEAN}
    \cup {[source |-> "stdin", files |-> <<LogRed>>, no_save |-> ns, basic |-> FALSE] :
        ns \in BOOLEAN}
    \cup {[source |-> "nopath", files |-> <<>>, no_save |-> FALSE, basic |-> FALSE]}

\* a slip: a file without a result is entered with empty statistics
AnalyzeAll_placeholder(files) ==
    [i \in 1..Len(files) |->
        IF analyze_log_file(files[i]) = None
        THEN FileStats(<<>>, 0, 0, 0)
        ELSE analyze_log_file(files[i])[1]]

\* the statistics of the files that yield a result, in the order of the files
AnalyzeAll(files) == Flatten([i \in 1..Len(files) |-> analyze_log_file(files[i])])

\* a slip: an anomaly or a flaky test makes the run fail
ExitStatus_findings_fatal(stats_of_run, found_anomalies, found_flaky) ==
    IF TotalOf(stats_of_run, "failed") > 0 \/ found_anomalies # <<>> \/ found_flaky # <<>>
    THEN 1 ELSE 0

\* total_failed = sum(...); if total_failed > 0: sys.exit(1)
ExitStatus(stats_of_run, found_anomalies, found_flaky) ==
    IF TotalOf(stats_of_run, "failed") > 0 THEN 1 ELSE 0

Did(p, e)  == events' = [events EXCEPT ![p] = Append(@, e)]
Goto(p, l) == pc' = [pc EXCEPT ![p] = l]
Crash(p)   == /\ Goto(p, "crashed")
              /\ exit_code' = [exit_code EXCEPT ![p] = 1]
Running(p) == pc[p] \notin {"idle", "done", "crashed"}

\* lines 657-705: the arguments, the list of log files
Begin(p, a) ==
    /\ args' = [args EXCEPT ![p] = a]
    /\ runs' = runs + 1
    /\ overlap' = (overlap \/ \E q \in Procs \ {p} : Running(q))
    /\ all_stats' = [all_stats EXCEPT ![p] = <<>>]
    /\ history' = [history EXCEPT ![p] = <<>>]
    /\ baseline' = [baseline EXCEPT ![p] = EmptyDict]
    /\ anomalies' = [anomalies EXCEPT ![p] = <<>>]
    /\ flaky_tests' = [flaky_tests EXCEPT ![p] = <<>>]
    /\ save_history' = [save_history EXCEPT ![p] = <<>>]
    /\ temp_file' = [temp_file EXCEPT ![p] = (a.source = "stdin")]
    /\ IF a.source = "nopath"
       THEN /\ events' = [events EXCEPT ![p] = <<"error_path_not_found">>]
            /\ Goto(p, "done")
            /\ exit_code' = [exit_code EXCEPT ![p] = 1]
       ELSE IF a.files = <<>>
       THEN /\ events' = [events EXCEPT ![p] = <<"no_log_files_found">>]
            /\ Goto(p, "done")
            /\ exit_code' = [exit_code EXCEPT ![p] = 0]
       ELSE /\ events' = [events EXCEPT ![p] = <<>>]
            /\ Goto(p, MainSteps[1])
            /\ exit_code' = [exit_code EXCEPT ![p] = -1]
    /\ UNCHANGED <<clock, hist_file, parse_vars, base_vars, anom_vars,
                   flaky_vars, agg_vars, extra_vars>>

Start(p) ==
    /\ pc[p] = "idle"
    /\ \E a \in Invocations : Begin(p, a)

\* the next invocation over the same log directory
StartAgain(p) ==
    /\ pc[p] \in {"done", "crashed"}
    /\ runs < MaxRuns
    /\ \E a \in Invocations : Begin(p, a)

\* lines 707-711
Analyze(p) ==
    /\ pc[p] = "analyze"
    /\ all_stats' = [all_stats EXCEPT ![p] = AnalyzeAll(args[p].files)]
    /\ Did(p, "analyze")
    /\ Goto(p, StepAfter("analyze"))
    /\ UNCHANGED <<clock, hist_file, runs, overlap, args, temp_file, history, baseline,
                   anomalies, flaky_tests, save_history, exit_code,
                   parse_vars, base_vars, anom_vars,
                   flaky_vars, agg_vars, extra_vars>>

\* line 715
Load(p) ==
    /\ pc[p] = "load"
    /\ Did(p, "load_history")
    /\ LET r == load_historical_data(hist_file)
       IN  IF r.raised
           THEN /\ Crash(p)
                /\ UNCHANGED history
           ELSE /\ history' = [history EXCEPT ![p] = r.value]
                /\ Goto(p, StepAfter("load"))
                /\ UNCHANGED exit_code
    /\ UNCHANGED <<clock, hist_file, runs, overlap, args, temp_file, all_stats, baseline,
                   anomalies, flaky_tests, save_history,
                   parse_vars, base_vars, anom_vars,
                   flaky_vars, agg_vars, extra_vars>>

\* line 716
Baseline(p) ==
    /\ pc[p] = "baseline"
    /\ baseline' = [baseline EXCEPT ![p] = calculate_baseline(history[p], DEFAULT_DAYS, clock)]
    /\ Did(p, "calculate_baseline")
    /\ Goto(p, StepAfter("baseline"))
    /\ UNCHANGED <<clock, hist_file, runs, overlap, args, temp_file, all_stats, history,
                   anomalies, flaky_tests, save_history, exit_code,
                   parse_vars, base_vars, anom_vars,
                   flaky_vars, agg_vars, extra_vars>>

\* lines 719-720
Detect(p) ==
    /\ pc[p] = "detect"
    /\ anomalies' = [anomalies EXCEPT ![p] =
           IF ~args[p].basic THEN detect_anomalies(all_stats[p], baseline[p]) ELSE <<>>]
    /\ flaky_tests' = [flaky_tests EXCEPT ![p] =
           IF ~args[p].basic THEN detect_flaky_tests(history[p], DEFAULT_DAYS, clock) ELSE <<>>]
    /\ Did(p, "detect")
    /\ Goto(p, StepAfter("detect"))
    /\ UNCHANGED <<clock, hist_file, runs, overlap, args, temp_file, all_stats, history,
                   baseline, save_history, exit_code,
                   parse_vars, base_vars, anom_vars,
                   flaky_vars, agg_vars, extra_vars>>

\* a slip: --no-save is not looked at
ShouldSave_ignores_no_save(no_save, stats_of_run) == stats_of_run # <<>>

\* line 723: if not args.no_save and all_stats
ShouldSave(no_save, stats_of_run) == ~no_save /\ stats_of_run # <<>>

\* lines 723-724 and 282-283: the guard, and the load of save_historical_data
Save(p) ==
    /\ pc[p] = "save"
    /\ IF ShouldSave(args[p].no_save, all_stats[p])
       THEN /\ Did(p, "load_history")
            /\ LET r == load_historical_data(hist_file)
               IN  IF r.raised
                   THEN /\ Crash(p)
                        /\ UNCHANGED save_history
                   ELSE /\ save_history' = [save_history EXCEPT ![p] = r.value]
                        /\ Goto(p, "save_write")
                        /\ UNCHANGED exit_code
       ELSE /\ Goto(p, StepAfter("save"))
            /\ UNCHANGED <<events, save_history, exit_code>>
    /\ UNCHANGED <<clock, hist_file, runs, overlap, args, temp_file, all_stats, history,
                   baseline, anomalies, flaky_tests,
                   parse_vars, base_vars, anom_vars,
                   flaky_vars, agg_vars, extra_vars>>

\* lines 286-310: the record, the pruning, the file rewritten
SaveWrite(p) ==
    /\ pc[p] = "save_write"
    /\ hist_file' = HistFile("ok", SavedHistory(save_history[p], all_stats[p], clock))
    /\ Did(p, "write_history")
    /\ Goto(p, StepAfter("save"))
    /\ UNCHANGED <<clock, runs, overlap, args, temp_file, all_stats, history, baseline,
                   anomalies, flaky_tests, save_history, exit_code,
                   parse_vars, base_vars, anom_vars,
                   flaky_vars, agg_vars, extra_vars>>

\* lines 308-309: os.makedirs or open(history_file, 'w') raises an OSError
SaveWriteFails(p) ==
    /\ pc[p] = "save_write"
    /\ Crash(p)
    /\ UNCHANGED <<clock, hist_file, runs, overlap, args, temp_file, all_stats, history,
                   baseline, anomalies, flaky_tests, save_history, events,
                   parse_vars, base_vars, anom_vars,
                   flaky_vars, agg_vars, extra_vars>>

\* lines 727-773: the report, printed or written to a file
Report(p) ==
    /\ pc[p] = "report"
    /\ Did(p, "report")
    /\ Goto(p, StepAfter("report"))
    /\ UNCHANGED <<clock, hist_file, runs, overlap, args, temp_file, all_stats, history,
                   baseline, anomalies, flaky_tests, save_history, exit_code,
                   parse_vars, base_vars, anom_vars,
                   flaky_vars, agg_vars, extra_vars>>

\* lines 749-771: os.makedirs or open(output_file, 'w') raises an OSError
ReportFails(p) ==
    /\ pc[p] = "report"
    /\ Crash(p)
    /\ UNCHANGED <<clock, hist_file, runs, overlap, args, temp_file, all_stats, history,
                   baseline, anomalies, flaky_tests, save_history, events,
                   parse_vars, base_vars, anom_vars,
                   flaky_vars, agg_vars, extra_vars>>

\* lines 776-777
Cleanup(p) ==
    /\ pc[p] = "cleanup"
    /\ IF args[p].source = "stdin"
       THEN /\ temp_file' = [temp_file EXCEPT ![p] = FALSE]
            /\ Did(p, "unlink_temp")
       ELSE UNCHANGED <<temp_file, events>>
    /\ Goto(p, StepAfter("cleanup"))
    /\ UNCHANGED <<clock, hist_file, runs, overlap, args, all_stats, history, baseline,
                   anomalies, flaky_tests, save_history, exit_code,
                   parse_vars, base_vars, anom_vars,
                   flaky_vars, agg_vars, extra_vars>>

\* lines 779-781
Exit(p) ==
    /\ pc[p] = "exit"
    /\ exit_code' = [exit_code EXCEPT ![p] =
           ExitStatus(all_stats[p], anomalies[p], flaky_tests[p])]
    /\ Did(p, "exit")
    /\ Goto(p, "done")
    /\ UNCHANGED <<clock, hist_file, runs, overlap, args, temp_file, all_stats, history,
                   baseline, anomalies, flaky_tests, save_history,
                   parse_vars, base_vars, anom_vars,
                   flaky_vars, agg_vars, extra_vars>>

\* a day passes
Tick ==
    /\ clock < MaxClock
    /\ clock' = clock + 1
    /\ UNCHANGED <<hist_file, runs, overlap, local_vars, parse_vars, base_vars, anom_vars,
                   flaky_vars, agg_vars, extra_vars>>

(***************************************************************************)
(* Spec: up to MaxRuns runs of main, one after the other, over one log     *)
(* directory whose history file is absent, corrupt, unreadable or holds    *)
(* entries of earlier runs.                                                *)
(***************************************************************************)
\* earlier runs as <<log file, day>>: entries on the boundary of the retention
\* period and of the baseline window, a test that fails in one run of three,
\* an expired entry between two newer ones
EarlierRuns ==
    { <<>>,
      <<<<LogGreen, -RETENTION_DAYS>>, <<LogRed, 1 - RETENTION_DAYS>>>>,
      <<<<LogGreen, -DEFAULT_DAYS>>, <<LogGreen, 1 - DEFAULT_DAYS>>>>,
      <<<<LogRed, -2>>, <<LogGreen, -1>>, <<LogGreen, -1>>>>,
      <<<<LogGreen, -1>>, <<LogRed, -RETENTION_DAYS - 1>>, <<LogSlow, -3>>>> }

HistoryOf(earlier) == [i \in 1..Len(earlier) |-> Entry(earlier[i][1], earlier[i][2])]

InitHistories == {HistoryOf(earlier) : earlier \in EarlierRuns}

InitHistFiles ==
    {HistFile(st, <<>>) : st \in {"absent", "corrupt", "unreadable"}}
    \cup {HistFile("ok", h) : h \in InitHistories}

MainStart ==
    /\ clock = 0 /\ runs = 0 /\ overlap = FALSE
    /\ pc = [p \in Procs |-> "idle"]
    /\ args = [p \in Procs |-> NoArgs]
    /\ temp_file = [p \in Procs |-> FALSE]
    /\ all_stats = [p \in Procs |-> <<>>]
    /\ history = [p \in Procs |-> <<>>]
    /\ baseline = [p \in Procs |-> EmptyDict]
    /\ anomalies = [p \in Procs |-> <<>>]
    /\ flaky_tests = [p \in Procs |-> <<>>]
    /\ save_history = [p \in Procs |-> <<>>]
    /\ exit_code = [p \in Procs |-> -1]
    /\ events = [p \in Procs |-> <<>>]

Init ==
    /\ hist_file \in InitHistFiles
    /\ MainStart
    /\ ParseIdle /\ BaseIdle /\ AnomIdle /\ FlakyIdle /\ AggIdle /\ ExtraIdle

Next ==
    \/ Tick
    \/ Start(1)
    \/ StartAgain(1)
    \/ Analyze(1)
    \/ Load(1)
    \/ Baseline(1)
    \/ Detect(1)
    \/ Save(1)
    \/ SaveWrite(1)
    \/ SaveWriteFails(1)
    \/ Report(1)
    \/ ReportFails(1)
    \/ Cleanup(1)
    \/ Exit(1)

Spec == Init /\ [][Next]_vars

(***************************************************************************)
(* SpecRace: two invocations of main over the same log directory, each     *)
(* with a log file of its own, with no order between their steps.  The     *)
(* code takes no lock on the history file.                                 *)
(***************************************************************************)
RaceInvocation(p) ==
    [source |-> "dir", files |-> <<IF p = 1 THEN LogGreen ELSE LogRed>>,
     no_save |-> FALSE, basic |-> FALSE]

StartRace(p) ==
    /\ pc[p] = "idle"
    /\ Begin(p, RaceInvocation(p))

InitRace ==
    /\ hist_file \in InitHistFiles
    /\ MainStart
    /\ ParseIdle /\ BaseIdle /\ AnomIdle /\ FlakyIdle /\ AggIdle /\ ExtraIdle

NextRace ==
    \E p \in Procs :
        \/ StartRace(p)
        \/ Analyze(p)
        \/ Load(p)
        \/ Baseline(p)
        \/ Detect(p)
        \/ Save(p)
        \/ SaveWrite(p)
        \/ Report(p)
        \/ Cleanup(p)
        \/ Exit(p)

SpecRace == InitRace /\ [][NextRace]_vars

(***************************************************************************)
(* SpecFresh: up to MaxFreshRuns runs of main, one after the other, over a *)
(* log directory that starts without a history file.  A week may pass at   *)
(* any point.                                                              *)
(***************************************************************************)
MaxFreshRuns == 4

FreshInvocations ==
    {[source |-> "dir", files |-> <<f>>, no_save |-> ns, basic |-> FALSE] :
        f \in {LogGreen, LogRed}, ns \in BOOLEAN}

StartFresh(p) ==
    /\ pc[p] \in {"idle", "done", "crashed"}
    /\ runs < MaxFreshRuns
    /\ \E a \in FreshInvocations : Begin(p, a)

\* DEFAULT_DAYS days pass
WeekPasses ==
    /\ clock = 0
    /\ clock' = DEFAULT_DAYS
    /\ UNCHANGED <<hist_file, runs, overlap, local_vars, parse_vars, base_vars, anom_vars,
                   flaky_vars, agg_vars, extra_vars>>

InitFresh ==
    /\ hist_file = HistFile("absent", <<>>)
    /\ MainStart
    /\ ParseIdle /\ BaseIdle /\ AnomIdle /\ FlakyIdle /\ AggIdle /\ ExtraIdle

NextFresh ==
    \/ WeekPasses
    \/ StartFresh(1)
    \/ Analyze(1)
    \/ Load(1)
    \/ Baseline(1)
    \/ Detect(1)
    \/ Save(1)
    \/ SaveWrite(1)
    \/ SaveWriteFails(1)
    \/ Report(1)
    \/ ReportFails(1)
    \/ Cleanup(1)
    \/ Exit(1)

SpecFresh == InitFresh /\ [][NextFresh]_vars

(***************************************************************************)
(* validate_workflow.py.  A str is the sequence of its characters.         *)
(***************************************************************************)
ascii_uppercase == <<"A", "B", "C", "D", "E", "F", "G", "H", "I", "J", "K", "L", "M", "N", "O", "P", "Q", "R", "S", "T", "U", "V", "W", "X", "Y", "Z">>
ascii_lowercase == <<"a", "b", "c", "d", "e", "f", "g", "h", "i", "j", "k", "l", "m", "n", "o", "p", "q", "r", "s", "t", "u", "v", "w", "x", "y", "z">>
digits          == {"0", "1", "2", "3", "4", "5", "6", "7", "8", "9"}

IsUpper(c) == \E i \in 1..Len(ascii_uppercase) : ascii_uppercase[i] = c
IsLower(c) == \E i \in 1..Len(ascii_lowercase) : ascii_lowercase[i] = c
IsAlnum(c) == IsUpper(c) \/ IsLower(c) \/ c \in digits

\* str.lower()
LowerChar(c) ==
    IF IsUpper(c)
    THEN ascii_lowercase[CHOOSE i \in 1..Len(ascii_uppercase) : ascii_uppercase[i] = c]
    ELSE c
lower(s) == [i \in 1..Len(s) |-> LowerChar(s[i])]

\* the characters str.splitlines splits at, and those str.strip and \s take
LineBreaks == {"\n", "\r"}
Whitespace == {" ", "\t"} \cup LineBreaks

\* msg.splitlines()[0] if msg else ""
FirstLine(s) ==
    LET breaks == {i \in 1..Len(s) : s[i] \in LineBreaks}
    IN  IF breaks = {} THEN s
        ELSE SubSeq(s, 1, (CHOOSE i \in breaks : \A j \in breaks : i <= j) - 1)

\* a slip: only the leading whitespace is taken off
strip_leading_only(s) ==
    LET solid == {i \in 1..Len(s) : s[i] \notin Whitespace}
    IN  IF solid = {} THEN <<>>
        ELSE SubSeq(s, CHOOSE i \in solid : \A j \in solid : i <= j, Len(s))

\* str.strip()
strip(s) ==
    LET solid == {i \in 1..Len(s) : s[i] \notin Whitespace}
    IN  IF solid = {} THEN <<>>
        ELSE SubSeq(s, CHOOSE i \in solid : \A j \in solid : i <= j,
                       CHOOSE i \in solid : \A j \in solid : i >= j)

startswith(s, prefix) ==
    Len(s) >= Len(prefix) /\ SubSeq(s, 1, Len(prefix)) = prefix
endswith(s, suffix) ==
    Len(s) >= Len(suffix) /\ SubSeq(s, Len(s) - Len(suffix) + 1, Len(s)) = suffix

\* lines 93-96
default_prefixes ==
    <<<<"F", "e", "a", "t", "u", "r", "e", ":">>,
      <<"F", "i", "x", ":">>,
      <<"D", "o", "c", "s", ":">>,
      <<"D", "o", "c", "u", "m", "e", "n", "t", "a", "t", "i", "o", "n", ":">>,
      <<"R", "e", "f", "a", "c", "t", "o", "r", ":">>,
      <<"T", "e", "s", "t", ":">>,
      <<"C", "h", "o", "r", "e", ":">>,
      <<"C", "I", ":">>,
      <<"B", "u", "i", "l", "d", ":">>,
      <<"P", "e", "r", "f", ":">>,
      <<"H", "o", "t", "f", "i", "x", ":">>,
      <<"R", "e", "l", "e", "a", "s", "e", ":">>>>

\* lines 102-104
cc_types ==
    <<<<"f", "e", "a", "t">>,
      <<"f", "i", "x">>,
      <<"d", "o", "c", "s">>,
      <<"r", "e", "f", "a", "c", "t", "o", "r">>,
      <<"t", "e", "s", "t">>,
      <<"c", "h", "o", "r", "e">>,
      <<"c", "i">>,
      <<"b", "u", "i", "l", "d">>,
      <<"p", "e", "r", "f">>,
      <<"r", "e", "v", "e", "r", "t">>,
      <<"r", "e", "l", "e", "a", "s", "e">>,
      <<"s", "t", "y", "l", "e">>>>

\* line 88
auto_allowed ==
    <<<<"M", "e", "r", "g", "e", " ">>, <<"R", "e", "v", "e", "r", "t", " ">>, <<"R", "e", "l", "e", "a", "s", "e", " ">>>>

\* line 118
truthy == {<<"1">>, <<"t", "r", "u", "e">>, <<"y", "e", "s">>}


\* lines 65-73; the value of ALLOWED_PREFIXES is kept as the tokens that
\* re.split(r"[\s,]+", raw) leaves, none for an unset or blank variable
_allowed_prefixes_from_env(env, defaults) ==
    LET toks == env.ALLOWED_PREFIXES
        norm == [i \in 1..Len(toks) |->
                    IF endswith(toks[i], <<":">>) THEN toks[i] ELSE toks[i] \o <<":">>]
    IN  IF norm = <<>> THEN defaults ELSE norm

\* line 99
prefix_ok(first, allowed_prefixes) ==
    \E i \in 1..Len(allowed_prefixes) :
        startswith(lower(first), lower(allowed_prefixes[i]))

\* line 105, from position i on: (?:\([^)]+\))?!?:\s+.+
CcTail(first, i) ==
    LET closes == {j \in (i + 2)..Len(first) :
                      /\ first[j] = ")"
                      /\ \A k \in (i + 1)..(j - 1) : first[k] # ")"}
        after_scope == {i} \cup
            (IF i <= Len(first) /\ first[i] = "(" THEN {j + 1 : j \in closes} ELSE {})
        after_bang == after_scope \cup
            {j + 1 : j \in {k \in after_scope : k <= Len(first) /\ first[k] = "!"}}
    IN  \E j \in after_bang :
            /\ j + 2 <= Len(first)
            /\ first[j] = ":"
            /\ first[j + 1] \in Whitespace

\* lines 105-106: ^(?:types)... with re.IGNORECASE
cc_ok(first) ==
    \E t \in 1..Len(cc_types) :
        /\ startswith(lower(first), cc_types[t])
        /\ CcTail(first, Len(cc_types[t]) + 1)

\* line 121: (#[0-9]+|issue-[0-9]+|[A-Z][A-Z0-9]+-[0-9]+) with re.IGNORECASE
issue_ok(s) ==
    \/ \E i \in 1..(Len(s) - 1) : s[i] = "#" /\ s[i + 1] \in digits
    \/ \E i \in 1..(Len(s) - 6) :
           /\ lower(SubSeq(s, i, i + 5)) = <<"i", "s", "s", "u", "e", "-">>
           /\ s[i + 6] \in digits
    \/ \E i \in 1..Len(s) : \E j \in (i + 2)..(Len(s) - 1) :
           /\ IsUpper(s[i]) \/ IsLower(s[i])
           /\ \A k \in (i + 1)..(j - 1) : IsAlnum(s[k])
           /\ s[j] = "-"
           /\ s[j + 1] \in digits

\* lines 76-127
validate_commit_message_text(message, no_issue, env) ==
    LET first == strip(FirstLine(message))
        allowed_prefixes == _allowed_prefixes_from_env(env, default_prefixes)
        waived == no_issue \/ lower(env.ALLOW_NO_ISSUE) \in truthy
    IN  IF \E i \in 1..Len(auto_allowed) : startswith(first, auto_allowed[i])
        THEN TRUE
        ELSE IF ~(prefix_ok(first, allowed_prefixes) \/ cc_ok(first))
        THEN FALSE
        ELSE IF ~waived /\ ~issue_ok(message)
        THEN FALSE
        ELSE TRUE

\* the messages: first lines written as one of these heads, with what a head
\* is meant to be (auto: a word of a merge, revert or release commit; prefix:
\* a prefix of the default list or of ALLOWED_PREFIXES; cc: a Conventional
\* Commits type with its colon)
Heads ==
    {[text |-> <<"M", "e", "r", "g", "e">>, auto |-> TRUE, prefix |-> "none", cc |-> FALSE],
     [text |-> <<"R", "e", "v", "e", "r", "t">>, auto |-> TRUE, prefix |-> "none", cc |-> FALSE],
     [text |-> <<"R", "e", "l", "e", "a", "s", "e">>, auto |-> TRUE, prefix |-> "none", cc |-> FALSE],
     [text |-> <<"m", "e", "r", "g", "e">>, auto |-> FALSE, prefix |-> "none", cc |-> FALSE],
     [text |-> <<"A", "d", "d", "i", "n", "g">>, auto |-> FALSE, prefix |-> "none", cc |-> FALSE],
     [text |-> <<"[", "H", "O", "T", "F", "I", "X", "]">>, auto |-> FALSE, prefix |-> "none", cc |-> FALSE],
     [text |-> <<"F", "e", "a", "t", "u", "r", "e", ":">>, auto |-> FALSE, prefix |-> "default", cc |-> FALSE],
     [text |-> <<"f", "e", "a", "t", "u", "r", "e", ":">>, auto |-> FALSE, prefix |-> "default", cc |-> FALSE],
     [text |-> <<"F", "I", "X", ":">>, auto |-> FALSE, prefix |-> "default", cc |-> TRUE],
     [text |-> <<"H", "o", "t", "f", "i", "x", ":">>, auto |-> FALSE, prefix |-> "default", cc |-> FALSE],
     [text |-> <<"F", "e", "a", "t", "u", "r", "e", "s", ":">>, auto |-> FALSE, prefix |-> "none", cc |-> FALSE],
     [text |-> <<"f", "e", "a", "t", ":">>, auto |-> FALSE, prefix |-> "none", cc |-> TRUE],
     [text |-> <<"F", "e", "a", "t", "(", "a", "p", "i", ")", "!", ":">>, auto |-> FALSE, prefix |-> "none", cc |-> TRUE],
     [text |-> <<"s", "t", "y", "l", "e", "!", ":">>, auto |-> FALSE, prefix |-> "none", cc |-> TRUE],
     [text |-> <<"f", "e", "a", "t", "(", ")", ":">>, auto |-> FALSE, prefix |-> "none", cc |-> FALSE],
     [text |-> <<"W", "i", "p", ":">>, auto |-> FALSE, prefix |-> "env", cc |-> FALSE]}

\* the references: what is written, and whether it is meant as an issue
\* reference
References ==
    {[text |-> <<>>, is_ref |-> FALSE],
     [text |-> <<"#", "1", "2">>, is_ref |-> TRUE],
     [text |-> <<"I", "s", "s", "u", "e", "-", "3">>, is_ref |-> TRUE],
     [text |-> <<"a", "b", "1", "-", "7">>, is_ref |-> TRUE],
     [text |-> <<"#">>, is_ref |-> FALSE],
     [text |-> <<"A", "-", "1">>, is_ref |-> FALSE]}


MessageParts ==
    [lead : {<<>>, <<" ">>, <<"\n">>},
     head : Heads,
     sep : {<<>>, <<" ">>},
     subject : {<<>>, <<"x">>, <<"C", "r", "i", "t", "i", "c", "a", "l", " ", "s", "e", "c", "u", "r", "i", "t", "y", " ", "f", "i", "x">>},
     ref : References,
     second : {r \in References : r.text \in {<<>>, <<"#", "1", "2">>, <<"#">>}}]

\* the message written from its parts
Text(parts) ==
    parts.lead \o parts.head.text \o parts.sep \o parts.subject
    \o (IF parts.ref.text = <<>> THEN <<>> ELSE <<" ">> \o parts.ref.text)
    \o (IF parts.second.text = <<>> THEN <<>> ELSE <<"\n">> \o parts.second.text)

HotfixExample == <<"[", "H", "O", "T", "F", "I", "X", "]", " ", "C", "r", "i", "t", "i", "c", "a", "l", " ", "s", "e", "c", "u", "r", "i", "t", "y", " ", "f", "i", "x">>

Environs ==
    {[NoEnviron EXCEPT !.ALLOW_NO_ISSUE = v] : v \in {<<>>, <<"T", "R", "U", "E">>, <<"0">>}}
    \cup {[NoEnviron EXCEPT !.ALLOWED_PREFIXES = <<<<"w", "i", "p">>>>]}

(***************************************************************************)
(* SpecCommit: one call of validate_commit_message_text on any of the      *)
(* messages, with and without the waiver of the issue reference.           *)
(***************************************************************************)
InitCommit ==
    /\ msg_parts \in MessageParts
    /\ msg = Text(msg_parts)
    /\ allow_no_issue \in BOOLEAN
    /\ environ \in Environs
    /\ msg_pc = "call"
    /\ msg_ok = FALSE
    /\ issue = NoIssue /\ issue_pc = "idle" /\ closure_ok = FALSE
    /\ ParseIdle /\ BaseIdle /\ AnomIdle /\ MainIdle /\ FlakyIdle /\ AggIdle /\ ReportIdle

ValidateCommitMessageText ==
    /\ msg_pc = "call"
    /\ msg_ok' = validate_commit_message_text(msg, allow_no_issue, environ)
    /\ msg_pc' = "return"
    /\ UNCHANGED <<environ, msg, msg_parts, allow_no_issue, issue, issue_pc, closure_ok,
                   parse_vars, base_vars, anom_vars, main_vars, flaky_vars, agg_vars,
                   report_vars>>

NextCommit == ValidateCommitMessageText

SpecCommit == InitCommit /\ [][NextCommit]_vars

(***************************************************************************)
(* validate_issue_closure.  The issue is what gh issue view gives: the     *)
(* labels in their order and the body, kept as its lines.                  *)
(***************************************************************************)
\* "\n".join(lines)
JoinLines(lines) ==
    Flatten([i \in 1..Len(lines) |-> IF i = 1 THEN lines[i] ELSE <<"\n">> \o lines[i]])

\* s in text
Contains(text, s) ==
    \E i \in 1..(Len(text) - Len(s) + 1) : SubSeq(text, i, i + Len(s) - 1) = s

\* the first position from i on that holds no whitespace, Len(text) + 1 if none
SkipSpace(text, i) ==
    LET solid == {j \in i..Len(text) : text[j] \notin Whitespace}
    IN  IF solid = {} THEN Len(text) + 1 ELSE CHOOSE j \in solid : \A k \in solid : j <= k

\* lines 278-281: (?m)^\s*[-*]\s*\[<mark>\]\s+ matches somewhere in the body
HasTask(text, marks) ==
    \E i \in 1..Len(text) :
        /\ i = 1 \/ text[i - 1] = "\n"
        /\ LET bullet == SkipSpace(text, i)
               box == SkipSpace(text, bullet + 1)
           IN  /\ box + 3 <= Len(text)
               /\ text[bullet] \in {"-", "*"}
               /\ text[box] = "["
               /\ text[box + 1] \in marks
               /\ text[box + 2] = "]"
               /\ text[box + 3] \in Whitespace

\* line 309: (✅\s*)?verification\s*: with re.IGNORECASE
HasVerification(text) ==
    \E i \in 1..(Len(text) - 12) :
        /\ lower(SubSeq(text, i, i + 11)) = <<"v", "e", "r", "i", "f", "i", "c", "a", "t", "i", "o", "n">>
        /\ SkipSpace(text, i + 12) <= Len(text)
        /\ text[SkipSpace(text, i + 12)] = ":"

\* line 245: re.fullmatch(r"p[0-5]", l)
IsPriority(l) == Len(l) = 2 /\ l[1] = "p" /\ l[2] \in {"0", "1", "2", "3", "4", "5"}

\* line 247
type_names ==
    {<<"b", "u", "g">>, <<"f", "e", "a", "t", "u", "r", "e">>, <<"e", "n", "h", "a", "n", "c", "e", "m", "e", "n", "t">>, <<"d", "o", "c", "u", "m", "e", "n", "t", "a", "t", "i", "o", "n">>, <<"t", "e", "s", "t">>, <<"c", "h", "o", "r", "e">>, <<"r", "e", "f", "a", "c", "t", "o", "r">>, <<"c", "i">>, <<"d", "e", "p", "e", "n", "d", "e", "n", "c", "i", "e", "s">>}

\* lines 253-261: the label categories the issue lacks
missing_label_categories(label_names) ==
    LET labels_lower == [i \in 1..Len(label_names) |-> lower(label_names[i])]
        has(prefix) == \E i \in 1..Len(labels_lower) : startswith(labels_lower[i], prefix)
    IN  (IF \E i \in 1..Len(labels_lower) : IsPriority(labels_lower[i])
         THEN {} ELSE {"priority"})
        \cup (IF has(<<"t", "y", "p", "e", ":">>) \/ \E i \in 1..Len(labels_lower) : labels_lower[i] \in type_names
              THEN {} ELSE {"type"})
        \cup (IF has(<<"a", "r", "e", "a", ":">>) THEN {} ELSE {"area"})
        \cup (IF has(<<"s", "t", "a", "t", "u", "s", ":">>) THEN {} ELSE {"status"})

\* a slip: any priority label of P0 to P2 makes the issue high priority
is_high_priority_any(label_names) ==
    \E i \in 1..Len(label_names) :
        lower(label_names[i]) \in {<<"p", "0">>, <<"p", "1">>, <<"p", "2">>}

\* lines 274-275: the first priority label decides
is_high_priority(label_names) ==
    LET at == {i \in 1..Len(label_names) : IsPriority(lower(label_names[i]))}
        priority == IF at = {} THEN <<>>
                    ELSE lower(label_names[CHOOSE i \in at : \A j \in at : i <= j])
    IN  priority \in {<<"p", "0">>, <<"p", "1">>, <<"p", "2">>}

\* lines 288-294
is_strict(strict_mode, label_names) ==
    IF strict_mode = "strict" THEN TRUE
    ELSE IF strict_mode = "off" THEN FALSE
    ELSE \/ is_high_priority(label_names)
         \/ \E i \in 1..Len(label_names) : lower(label_names[i]) = <<"e", "n", "f", "o", "r", "c", "e", ":", "s", "t", "r", "i", "c", "t">>

\* lines 215-332; gh is how the calls of the GitHub CLI end
validate_issue_closure(given, env) ==
    LET label_names == given.labels
        issue_body == JoinLines(given.body)
        strict == is_strict(env.AC_STRICT_MODE, label_names)
        sections == env.REQUIRE_SECTIONS
        missing == {i \in 1..Len(sections) : ~Contains(issue_body, sections[i])}
        require_verification == lower(env.REQUIRE_VERIFICATION) = <<"t", "r", "u", "e">>
    IN  IF given.gh # "ok" THEN FALSE
        ELSE IF missing_label_categories(label_names) # {} THEN FALSE
        ELSE IF missing # {} /\ strict THEN FALSE
        ELSE IF require_verification /\ ~HasVerification(issue_body) /\ strict THEN FALSE
        ELSE IF HasTask(issue_body, {" ", "x", "X"}) /\ HasTask(issue_body, Whitespace) /\ strict
        THEN FALSE
        ELSE TRUE

\* the labels of an issue, by category: none, one, or two of them
PriorityChoices ==
    {<<>>,
     <<<<"P", "1">>>>,
     <<<<"p", "2">>>>,
     <<<<"P", "3">>>>,
     <<<<"P", "3">>, <<"P", "1">>>>}

\* a type label, bare or with the prefix
TypeChoices ==
    {<<>>,
     <<<<"b", "u", "g">>>>,
     <<<<"T", "y", "p", "e", ":", "F", "e", "a", "t", "u", "r", "e">>>>}

\* an area label
AreaChoices ==
    {<<>>,
     <<<<"A", "r", "e", "a", ":", "U", "I">>>>}

\* a status label
StatusChoices ==
    {<<>>,
     <<<<"s", "t", "a", "t", "u", "s", ":", "d", "o", "n", "e">>>>}

\* the label that asks for strict enforcement
EnforceChoices ==
    {<<>>,
     <<<<"E", "n", "f", "o", "r", "c", "e", ":", "S", "t", "r", "i", "c", "t">>>>}

OpenBox      == <<" ", " ", "-", " ", "[", " ", "]", " ", "t", "e", "s", "t", "s", " ", "p", "a", "s", "s">>
CheckedBox   == <<"*", " ", "[", "X", "]", " ", "d", "o", "c", "s">>
NoBox        == <<"s", "e", "e", " ", "-", " ", "[", " ", "]", " ", "b", "e", "l", "o", "w">>
SummaryLine  == <<"#", "#", " ", "S", "u", "m", "m", "a", "r", "y">>
VerifiedLine == <<"V", "E", "R", "I", "F", "I", "C", "A", "T", "I", "O", "N", " ", ":", " ", "o", "k">>

BodyLines == {OpenBox, CheckedBox, NoBox, SummaryLine, VerifiedLine}

MaxBodyLines == 2

Issues ==
    {[gh |-> "ok", labels |-> p \o t \o a \o s \o e, body |-> b] :
        p \in PriorityChoices, t \in TypeChoices, a \in AreaChoices, s \in StatusChoices,
        e \in EnforceChoices, b \in SeqsUpTo(BodyLines, MaxBodyLines)}
    \cup {[gh |-> g, labels |-> <<>>, body |-> <<>>] :
             g \in {"no_gh", "view_failed", "bad_json"}}

ClosureEnvirons ==
    {[NoEnviron EXCEPT !.AC_STRICT_MODE = m, !.REQUIRE_SECTIONS = s,
                       !.REQUIRE_VERIFICATION = v] :
        m \in {"auto", "strict", "off"},
        s \in {<<>>, <<<<"S", "u", "m", "m", "a", "r", "y">>>>},
        v \in {<<"f", "a", "l", "s", "e">>, <<"T", "r", "u", "e">>}}

(***************************************************************************)
(* SpecIssue: one call of validate_issue_closure on any of the issues.     *)
(***************************************************************************)
InitIssue ==
    /\ issue \in Issues
    /\ environ \in ClosureEnvirons
    /\ issue_pc = "call"
    /\ closure_ok = FALSE
    /\ msg = <<>> /\ msg_parts = NoParts /\ allow_no_issue = FALSE
    /\ msg_pc = "idle" /\ msg_ok = FALSE
    /\ ParseIdle /\ BaseIdle /\ AnomIdle /\ MainIdle /\ FlakyIdle /\ AggIdle /\ ReportIdle

ValidateIssueClosure ==
    /\ issue_pc = "call"
    /\ closure_ok' = validate_issue_closure(issue, environ)
    /\ issue_pc' = "return"
    /\ UNCHANGED <<environ, msg, msg_parts, allow_no_issue, msg_pc, msg_ok, issue,
                   parse_vars, base_vars, anom_vars, main_vars, flaky_vars, agg_vars,
                   report_vars>>

NextIssue == ValidateIssueClosure

SpecIssue == InitIssue /\ [][NextIssue]_vars

(***************************************************************************)
(* generate_enhanced_text_report: the sections of the flaky tests and of   *)
(* the recent failures.  A line of the report is its kind, the number it   *)
(* prints and the item it shows.                                           *)
(***************************************************************************)
ReportLine(kind, n, item) == [kind |-> kind, n |-> n, item |-> item]

Min(a, b) == IF a <= b THEN a ELSE b

\* lines 558-567
FlakySection(found) ==
    IF found = <<>> THEN <<>>
    ELSE <<ReportLine("flaky_header", Len(found), <<>>)>>
         \o [i \in 1..Min(5, Len(found)) |-> ReportLine("flaky_test", i, <<found[i]>>)]
         \o (IF Len(found) > 5
             THEN <<ReportLine("flaky_more", Len(found) - 5, <<>>)>> ELSE <<>>)

\* lines 576-585: the failures shown, file by file; failure_count is the
\* number of lines shown so far
RECURSIVE ShownFailures(_, _)
ShownFailures(stats_of_run, failure_count) ==
    IF stats_of_run = <<>> \/ failure_count >= 10 THEN <<>>
    ELSE LET file_stats == Head(stats_of_run)
             first3 == IF file_stats.failed > 0
                       THEN SubSeq(file_stats.failures, 1, Min(3, Len(file_stats.failures)))
                       ELSE <<>>
             shown  == SubSeq(first3, 1, Min(Len(first3), 10 - failure_count))
         IN  shown \o ShownFailures(Tail(stats_of_run), failure_count + Len(shown))

\* lines 573-588
FailureSection(stats_of_run) ==
    LET total_failed == TotalOf(stats_of_run, "failed")
        shown == ShownFailures(stats_of_run, 0)
        lines == SumSeq([i \in 1..Len(stats_of_run) |-> Len(stats_of_run[i].failures)])
    IN  IF total_failed > 0
        THEN <<ReportLine("failures_header", total_failed, <<>>)>>
             \o [i \in 1..Len(shown) |-> ReportLine("failure", i, <<shown[i]>>)]
             \o (IF lines > 10
                 THEN <<ReportLine("failures_more", lines - 10, <<>>)>> ELSE <<>>)
        ELSE <<>>

\* lines 446-590, the two sections
generate_enhanced_text_report(stats_of_run, found_flaky) ==
    FlakySection(found_flaky) \o FailureSection(stats_of_run)

\* files per run and flaky tests given to the report
MaxReportFiles == 4
MaxFlakyFound == 7

\* a log with n failed tests
FailLog(n) == File([i \in 1..n |-> LineFailB])

\* logs without a failure, with 1, 4 and 6 of them, and one whose summary
\* counts a failed test that no line shows
ReportLogs == {FailLog(0), FailLog(1), FailLog(4), FailLog(6), File(<<LineSummary>>)}

\* n flaky tests as detect_flaky_tests lists them
FlakyFound(n) ==
    [i \in 1..n |-> [test |-> <<"test/b", i>>, failures |-> 1, total_runs |-> 3,
                     failure_rate |-> Rat(100, 3), severity |-> "medium"]]

(***************************************************************************)
(* SpecReport: one call of generate_enhanced_text_report.                  *)
(***************************************************************************)
InitReport ==
    /\ r_stats \in SeqsUpTo({StatsOf(f) : f \in ReportLogs}, MaxReportFiles)
    /\ r_flaky \in {FlakyFound(n) : n \in 0..MaxFlakyFound}
    /\ r_pc = "call"
    /\ r_report = <<>>
    /\ ParseIdle /\ BaseIdle /\ AnomIdle /\ MainIdle /\ FlakyIdle /\ AggIdle /\ BuildIdle

GenerateEnhancedTextReport ==
    /\ r_pc = "call"
    /\ r_report' = generate_enhanced_text_report(r_stats, r_flaky)
    /\ r_pc' = "return"
    /\ UNCHANGED <<r_stats, r_flaky, parse_vars, base_vars, anom_vars, main_vars,
                   flaky_vars, agg_vars, build_vars>>

NextReport == GenerateEnhancedTextReport

SpecReport == InitReport /\ [][NextReport]_vars

(***************************************************************************)
(* C1: with a summary line in the log, passed, failed and skipped are the  *)
(* integers of the (first) summary, whatever the tally of the parsed test  *)
(* records; without one, each count is the number of parsed records of     *)
(* that status, so the three add up to the number of records.              *)
(***************************************************************************)
\* the positions of the token stream where a summary starts, read off the text
SummaryStarts(content) ==
    LET toks == Flatten(content)
    IN  {i \in 1..(Len(toks) - 8) :
            /\ <<toks[i], toks[i + 2], toks[i + 3], toks[i + 5], toks[i + 6], toks[i + 8]>>
                   = <<"Tests", "failed", "|", "passed", "|", "skipped">>
            /\ {toks[i + 1], toks[i + 4], toks[i + 7]} \subseteq NumTokens}

C1_SummaryWins ==
    (parse_pc = "return" /\ log_file.exists) =>
        LET content == log_file.content
            toks    == Flatten(content)
            tests   == extract_test_details(content)
            s       == stats[1]
            at      == SummaryStarts(content)
        IN  /\ stats # None
            /\ at # {} =>
                  LET i == CHOOSE x \in at : \A y \in at : x <= y
                  IN  /\ s.failed  = IntOf(toks[i + 1])
                      /\ s.passed  = IntOf(toks[i + 4])
                      /\ s.skipped = IntOf(toks[i + 7])
            /\ at = {} =>
                  /\ s.passed  = Cardinality({k \in 1..Len(tests) : tests[k].status = "passed"})
                  /\ s.failed  = Cardinality({k \in 1..Len(tests) : tests[k].status = "failed"})
                  /\ s.skipped = Cardinality({k \in 1..Len(tests) : tests[k].status = "skipped"})
                  /\ s.passed + s.failed + s.skipped = Len(tests)
                  /\ s.tests = tests

\* a log with a summary line whose numbers differ from the tally of its records
C1_Witness ==
    /\ parse_pc = "return"
    /\ log_file.exists
    /\ SummaryStarts(log_file.content) # {}
    /\ stats # None
    /\ Len(stats[1].tests) > 0
    /\ stats[1].passed # CountStatus(stats[1].tests, "passed")
    /\ stats[1].passed + stats[1].failed + stats[1].skipped # Len(stats[1].tests)

(***************************************************************************)
(* C9: calculate_baseline returns the empty baseline when no entry of the  *)
(* history (an empty history included) is newer than now - days; otherwise *)
(* each average is the arithmetic mean, over exactly the entries newer     *)
(* than that cutoff, of the metric, and sample_size is their number.       *)
(***************************************************************************)
RECURSIVE SumOver(_, _)
SumOver(S, f) ==
    IF S = {} THEN 0 ELSE LET x == CHOOSE y \in S : TRUE IN f[x] + SumOver(S \ {x}, f)

RECURSIVE ProdOver(_, _)
ProdOver(S, f) ==
    IF S = {} THEN 1 ELSE LET x == CHOOSE y \in S : TRUE IN f[x] * ProdOver(S \ {x}, f)

\* the rational avg is the mean of the integers f[i], i in S
IsMeanOfInts(avg, S, f) == avg[1] * Cardinality(S) = avg[2] * SumOver(S, f)

\* the rational avg is the mean of the rationals r[i], i in S
IsMeanOfRats(avg, S, r) ==
    LET den == [i \in S |-> r[i][2]]
        P   == ProdOver(S, den)
        num == [i \in S |-> r[i][1] * (P \div r[i][2])]
    IN  avg[1] * Cardinality(S) * P = avg[2] * SumOver(S, num)

C9_BaselineIsMean ==
    b_pc = "return" =>
        LET inside == {i \in 1..Len(b_history) : b_history[i].timestamp > b_now - b_days}
            col(k) == [i \in inside |-> b_history[i][k]]
        IN  IF inside = {}
            THEN DOMAIN b_result = {}
            ELSE /\ DOMAIN b_result = {"avg_success_rate", "avg_api_errors",
                                       "avg_timeout_errors", "avg_assertion_errors",
                                       "avg_connection_errors", "avg_duration", "sample_size"}
                 /\ b_result.sample_size = Cardinality(inside)
                 /\ b_result.sample_size >= 1
                 /\ IsMeanOfRats(b_result.avg_success_rate, inside, col("success_rate"))
                 /\ IsMeanOfInts(b_result.avg_api_errors, inside, col("api_errors"))
                 /\ IsMeanOfInts(b_result.avg_timeout_errors, inside, col("timeout_errors"))
                 /\ IsMeanOfInts(b_result.avg_assertion_errors, inside, col("assertion_errors"))
                 /\ IsMeanOfInts(b_result.avg_connection_errors, inside, col("connection_errors"))
                 /\ IsMeanOfInts(b_result.avg_duration, inside, col("total_duration"))

\* a history with an entry on the cutoff, which is left out, and one inside
C9_Witness ==
    /\ b_pc = "return"
    /\ \E i \in 1..Len(b_history) : b_history[i].timestamp = b_now - b_days
    /\ DOMAIN b_result # {}
    /\ b_result.sample_size = 1
    /\ Len(b_history) = 2

(***************************************************************************)
(* C10: detect_anomalies returns no anomaly for the empty baseline; for    *)
(* any baseline its anomalies are of the six types, at most one of each,   *)
(* in the order success_rate_drop, api_errors_spike, timeout_errors_spike, *)
(* assertion_errors_spike, connection_errors_spike, duration_increase, and *)
(* each severity is medium or high.                                        *)
(***************************************************************************)
AnomalyRank(type) ==
    CASE type = "success_rate_drop"       -> 1
      [] type = "api_errors_spike"        -> 2
      [] type = "timeout_errors_spike"    -> 3
      [] type = "assertion_errors_spike"  -> 4
      [] type = "connection_errors_spike" -> 5
      [] type = "duration_increase"       -> 6
      [] OTHER                            -> 0

C10_AnomaliesOrdered ==
    a_pc = "return" =>
        /\ DOMAIN a_baseline = {} => a_result = <<>>
        /\ \A i \in 1..Len(a_result) :
              /\ AnomalyRank(a_result[i].type) \in 1..6
              /\ a_result[i].severity \in {"medium", "high"}
        /\ \A i, j \in 1..Len(a_result) :
              i < j => AnomalyRank(a_result[i].type) < AnomalyRank(a_result[j].type)

\* a result with an error spike followed by the duration increase
C10_Witness ==
    /\ a_pc = "return"
    /\ Len(a_result) >= 3
    /\ \E i \in 1..Len(a_result) : a_result[i].type = "duration_increase"
    /\ \E i \in 1..Len(a_result) : a_result[i].severity = "medium"
    /\ \E i \in 1..Len(a_result) : a_result[i].severity = "high"

(***************************************************************************)
(* The trace of a run: how often and where a step occurs in events[p].     *)
(***************************************************************************)
Times(p, e)   == Cardinality({i \in 1..Len(events[p]) : events[p][i] = e})
FirstAt(p, e) == CHOOSE i \in 1..Len(events[p]) :
                    events[p][i] = e /\ \A j \in 1..(i - 1) : events[p][j] # e
LastAt(p, e)  == CHOOSE i \in 1..Len(events[p]) :
                    events[p][i] = e /\ \A j \in (i + 1)..Len(events[p]) : events[p][j] # e
ReachedEnd(p) == pc[p] = "done" /\ Times(p, "exit") = 1
FailedSum(p)  == SumOver(1..Len(all_stats[p]), [i \in 1..Len(all_stats[p]) |-> all_stats[p][i].failed])

(***************************************************************************)
(* C2: a run of main that analysed at least one file and reached the end   *)
(* of the pipeline exits with a non-zero status exactly when the failed    *)
(* counts of the analysed files add up to more than zero, whatever         *)
(* anomalies and flaky tests it found.                                     *)
(***************************************************************************)
C2_ExitCodeIffFailed ==
    \A p \in Procs :
        ReachedEnd(p) /\ all_stats[p] # <<>> =>
            /\ exit_code[p] # 0 <=> FailedSum(p) > 0
            /\ exit_code[p] \in {0, 1}

\* a run without a failed test that found an anomaly of high severity has
\* ended with status 0
C2_Witness ==
    \E p \in Procs :
        /\ ReachedEnd(p) /\ all_stats[p] # <<>>
        /\ FailedSum(p) = 0 /\ exit_code[p] = 0
        /\ anomalies[p] # <<>>
        /\ \E a \in {anomalies[p][i] : i \in 1..Len(anomalies[p])} : a.severity = "high"

(***************************************************************************)
(* C3: when save_historical_data has written the history file, the file    *)
(* holds no entry whose timestamp is 30 days or more before the time of    *)
(* the save, whatever it held before; so after every save of a sequence.   *)
(***************************************************************************)
Wrote(p) == events'[p] = Append(events[p], "write_history")

C3_RetentionAfterSave ==
    [][\A p \in Procs :
          Wrote(p) =>
              \A i \in 1..Len(hist_file'.entries) :
                  clock - hist_file'.entries[i].timestamp < RETENTION_DAYS]_vars

\* a save has dropped entries that had reached the age of 30 days, the one
\* of exactly 30 days among them, and left the file with younger ones
C3_Witness ==
    \E p \in Procs :
        /\ pc[p] = StepAfter("save") /\ Times(p, "write_history") = 1
        /\ \E i \in 1..Len(save_history[p]) :
               clock - save_history[p][i].timestamp = RETENTION_DAYS
        /\ Len(hist_file.entries) = 2
        /\ \A i \in 1..Len(hist_file.entries) :
               clock - hist_file.entries[i].timestamp < RETENTION_DAYS

(***************************************************************************)
(* C4: a save over a readable history file leaves in the file exactly the  *)
(* previous entries that are newer than the 30-day cutoff, unchanged and   *)
(* in their previous order, followed by one new entry for the current run  *)
(* as the last element.                                                    *)
(***************************************************************************)
C4_AppendOnly ==
    [][\A p \in Procs :
          Wrote(p) /\ hist_file.status = "ok" =>
              LET old  == hist_file.entries
                  new  == hist_file'.entries
                  kept == {i \in 1..Len(old) : clock - old[i].timestamp < RETENTION_DAYS}
                  \* the position in the new file of the kept entry i
                  at   == [i \in kept |-> Cardinality({j \in kept : j <= i})]
              IN  /\ Len(new) = Cardinality(kept) + 1
                  /\ \A i \in kept : new[at[i]] = old[i]
                  /\ new[Len(new)].timestamp = clock
                  /\ new[Len(new)].total_failed = FailedSum(p)
                  /\ new[Len(new)].files_analyzed = Len(all_stats[p])]_vars

\* a save has dropped the expired entry that stood between two newer ones
\* and appended the entry of the run behind them
C4_Witness ==
    \E p \in Procs :
        /\ pc[p] = StepAfter("save") /\ Times(p, "write_history") = 1
        /\ Len(save_history[p]) = 3 /\ Len(hist_file.entries) = 3
        /\ hist_file.entries[1] = save_history[p][1]
        /\ hist_file.entries[2] = save_history[p][3]
        /\ hist_file.entries[3].timestamp = clock

(***************************************************************************)
(* C5 as the specification states it: a history file that is absent,       *)
(* unreadable or not valid JSON is never fatal; load_historical_data       *)
(* returns an empty sequence without raising, so the baseline, the         *)
(* anomaly list and the flaky list of the run are empty and the run is     *)
(* not aborted.  The code lets the exception of an unreadable file         *)
(* through, which ends the run.                                            *)
(***************************************************************************)
C5_HistoryNeverFatal ==
    \A p \in Procs :
        /\ hist_file.status \in {"absent", "unreadable", "corrupt"}
        /\ Times(p, "load_history") >= 1
        => /\ ~load_historical_data(hist_file).raised
           /\ pc[p] = "crashed" => Times(p, "calculate_baseline") = 1
           /\ history[p] = <<>>
           /\ DOMAIN baseline[p] = {}
           /\ anomalies[p] = <<>>
           /\ flaky_tests[p] = <<>>

(***************************************************************************)
(* C6 as the specification states it: a run that does not suppress         *)
(* persistence updates the History Store with its own aggregate before     *)
(* the baseline is computed.                                               *)
(***************************************************************************)
C6_StoreUpdatedFirst ==
    \A p \in Procs :
        /\ Times(p, "calculate_baseline") = 1
        /\ ~args[p].no_save /\ all_stats[p] # <<>>
        => /\ Times(p, "write_history") = 1
           /\ FirstAt(p, "write_history") < FirstAt(p, "calculate_baseline")

(***************************************************************************)
(* C6, corrected: the baseline of a run is computed over the history that  *)
(* main loaded before, and the run writes its own entry to the History     *)
(* Store only after the baseline is computed; the history the baseline     *)
(* is computed over is the content of the file before the run's write,     *)
(* so it does not include the run's own entry.                             *)
(***************************************************************************)
C6_BaselineBeforeSave ==
    \A p \in Procs :
        Times(p, "calculate_baseline") = 1 =>
            /\ FirstAt(p, "load_history") < FirstAt(p, "calculate_baseline")
            /\ history[p] = <<>> => DOMAIN baseline[p] = {}
            /\ DOMAIN baseline[p] # {} => baseline[p].sample_size <= Len(history[p])
            /\ Times(p, "write_history") = 1 =>
                   /\ FirstAt(p, "calculate_baseline") < FirstAt(p, "write_history")
                   /\ history[p] = save_history[p]

\* a first run over an empty store has saved its entry and has worked with
\* an empty baseline
C6_Witness ==
    \E p \in Procs :
        /\ ReachedEnd(p) /\ Times(p, "write_history") = 1
        /\ history[p] = <<>> /\ DOMAIN baseline[p] = {}
        /\ Len(hist_file.entries) = 1
        /\ hist_file.entries[1].total_failed = FailedSum(p)

(***************************************************************************)
(* C7 as the specification states it: a run reads the history file         *)
(* exactly once, at its start, and writes it at most once, at its end,     *)
(* after the report is out.                                                *)
(***************************************************************************)
C7_ReadOnceWriteLast ==
    \A p \in Procs :
        ReachedEnd(p) =>
            /\ Times(p, "load_history") = 1
            /\ Times(p, "write_history") <= 1
            /\ Times(p, "write_history") = 1 =>
                   FirstAt(p, "report") < FirstAt(p, "write_history")

(***************************************************************************)
(* C7, corrected: a run reads the history file once after the log files    *)
(* are analysed and before the baseline is computed, and a second time     *)
(* inside save_historical_data when it saves; it writes the file at most   *)
(* once, directly after that second read, after the detection of           *)
(* anomalies and flaky tests and before the report is made and put out.    *)
(***************************************************************************)
C7_ReadsAndWrites ==
    \A p \in Procs :
        /\ Times(p, "write_history") <= 1
        /\ Times(p, "load_history") <= 2
        /\ Times(p, "load_history") >= 1 =>
               /\ events[p][1] = "analyze" /\ FirstAt(p, "load_history") = 2
               /\ Times(p, "calculate_baseline") = 1 =>
                      FirstAt(p, "calculate_baseline") = 3
        /\ Times(p, "load_history") = 2 =>
               /\ ~args[p].no_save /\ all_stats[p] # <<>>
               /\ events[p][LastAt(p, "load_history") - 1] = "detect"
        /\ Times(p, "write_history") = 1 =>
               /\ Times(p, "load_history") = 2
               /\ FirstAt(p, "write_history") = LastAt(p, "load_history") + 1
               /\ Times(p, "report") = 1 =>
                      FirstAt(p, "write_history") < FirstAt(p, "report")
        /\ ReachedEnd(p) =>
               /\ Times(p, "write_history") = 1 <=> (~args[p].no_save /\ all_stats[p] # <<>>)
               /\ Times(p, "load_history") = 1 + Times(p, "write_history")
               /\ Times(p, "report") = 1

\* a run has read the file twice and written it once before its report
C7_Witness ==
    \E p \in Procs :
        /\ ReachedEnd(p)
        /\ Times(p, "load_history") = 2 /\ Times(p, "write_history") = 1
        /\ FirstAt(p, "write_history") < FirstAt(p, "report")

(***************************************************************************)
(* C8: no lock protects the history file.  Two runs that both save and     *)
(* run one after the other leave both their entries in the file; two       *)
(* runs whose load and write steps interleave can leave the entry of only  *)
(* one of them, that of the last writer.                                   *)
(***************************************************************************)
IsEntryOf(e, p) ==
    /\ e.timestamp = clock
    /\ e.total_failed = FailedSum(p)
    /\ e.files_analyzed = Len(all_stats[p])
    /\ e.total_duration = SumOver(1..Len(all_stats[p]),
                                  [i \in 1..Len(all_stats[p]) |-> all_stats[p][i].duration])

EntriesOf(p) == {i \in 1..Len(hist_file.entries) : IsEntryOf(hist_file.entries[i], p)}

BothSaved == \A p \in Procs : ReachedEnd(p) /\ Times(p, "write_history") = 1

C8_SequentialKeepsBoth ==
    BothSaved =>
        /\ EntriesOf(1) \cup EntriesOf(2) # {}
        /\ Len(hist_file.entries) \in EntriesOf(1) \cup EntriesOf(2)
        /\ ~overlap => Cardinality(EntriesOf(1)) = 1 /\ Cardinality(EntriesOf(2)) = 1

\* both runs have saved, their steps interleaved, and the file holds the
\* entry of the second run only: the entry of the first is lost
C8_Witness ==
    /\ BothSaved /\ overlap
    /\ EntriesOf(1) = {}
    /\ EntriesOf(2) = {Len(hist_file.entries)}
    /\ save_history[1] = save_history[2]

(***************************************************************************)
(* The thresholds of detect_anomalies, in integers: with the baseline      *)
(* mean b = b[1]/b[2] (b[2] > 0), the current rate 100*P/T and the         *)
(* current count c, the comparisons are cross-multiplied.                  *)
(***************************************************************************)
Reported(type) == {i \in 1..Len(a_result) : a_result[i].type = type}

CurrentSum(k) == SumOver(1..Len(a_current), [i \in 1..Len(a_current) |-> a_current[i][k]])
CurrentTests  == CurrentSum("passed") + CurrentSum("failed") + CurrentSum("skipped")

\* baseline mean success rate - current success rate - x, times a positive number
DropOver(x) ==
    LET b == a_baseline.avg_success_rate
        T == IF CurrentTests > 0 THEN CurrentTests ELSE 1
    IN  b[1] * T - 100 * CurrentSum("passed") * b[2] - x * b[2] * T

\* (c - b)/b*100 - x, times a positive number, for a baseline mean b > 0
IncreaseOver(c, b, x) == (c * b[2] - b[1]) * 100 - x * b[1]

(***************************************************************************)
(* C11: with a baseline, detect_anomalies reports one success_rate_drop    *)
(* exactly when the baseline mean success rate minus the current success   *)
(* rate is more than 15 points; its severity is high when the drop is      *)
(* more than 25 and medium otherwise.  A drop of 15 is not reported and a  *)
(* drop of 25 is medium.                                                   *)
(***************************************************************************)
C11_SuccessRateDrop ==
    a_pc = "return" /\ DOMAIN a_baseline # {} =>
        LET hits == Reported("success_rate_drop")
        IN  /\ hits # {} <=> DropOver(15) > 0
            /\ Cardinality(hits) <= 1
            /\ \A i \in hits :
                   a_result[i].severity = IF DropOver(25) > 0 THEN "high" ELSE "medium"

\* a drop of exactly 25 points has been reported as medium
C11_Witness ==
    /\ a_pc = "return" /\ DOMAIN a_baseline # {}
    /\ DropOver(25) = 0
    /\ \E i \in Reported("success_rate_drop") : a_result[i].severity = "medium"

(***************************************************************************)
(* C12: for each error category detect_anomalies reports one spike         *)
(* exactly when the baseline mean of the category is above 0 and the       *)
(* percentage increase of the current count over it is more than the       *)
(* threshold of the category: 100 for api and timeout, 50 for assertion,   *)
(* 200 for connection.  The severity is high when the increase is more     *)
(* than 200 percent and medium otherwise.  With a baseline mean of 0       *)
(* nothing is reported.                                                    *)
(***************************************************************************)
SpecThresholdOf(c) ==
    CASE c = "api_errors"        -> 100
      [] c = "timeout_errors"    -> 100
      [] c = "assertion_errors"  -> 50
      [] c = "connection_errors" -> 200

SpecMeanOf(c) ==
    CASE c = "api_errors"        -> a_baseline.avg_api_errors
      [] c = "timeout_errors"    -> a_baseline.avg_timeout_errors
      [] c = "assertion_errors"  -> a_baseline.avg_assertion_errors
      [] c = "connection_errors" -> a_baseline.avg_connection_errors

SpecSpikeOf(c) ==
    CASE c = "api_errors"        -> "api_errors_spike"
      [] c = "timeout_errors"    -> "timeout_errors_spike"
      [] c = "assertion_errors"  -> "assertion_errors_spike"
      [] c = "connection_errors" -> "connection_errors_spike"

C12_ErrorSpikes ==
    a_pc = "return" /\ DOMAIN a_baseline # {} =>
        \A c \in ErrorTypes :
            LET hits == Reported(SpecSpikeOf(c))
                b    == SpecMeanOf(c)
                cur  == CurrentSum(c)
            IN  /\ hits # {} <=> (b[1] > 0 /\ IncreaseOver(cur, b, SpecThresholdOf(c)) > 0)
                /\ Cardinality(hits) <= 1
                /\ \A i \in hits :
                       a_result[i].severity =
                           IF IncreaseOver(cur, b, 200) > 0 THEN "high" ELSE "medium"

\* all four counts stand 200 percent above their baseline mean: the api,
\* timeout and assertion spikes are reported as medium, the connection
\* spike is not reported
C12_Witness ==
    /\ a_pc = "return" /\ DOMAIN a_baseline # {}
    /\ \A c \in ErrorTypes : SpecMeanOf(c)[1] > 0 /\ IncreaseOver(CurrentSum(c), SpecMeanOf(c), 200) = 0
    /\ \A c \in ErrorTypes \ {"connection_errors"} :
           \E i \in Reported(SpecSpikeOf(c)) : a_result[i].severity = "medium"
    /\ Reported("connection_errors_spike") = {}

(***************************************************************************)
(* C13: detect_anomalies reports one duration_increase exactly when the    *)
(* baseline mean duration is above 0 and the percentage increase of the    *)
(* current total duration over it is more than 50; the severity is medium  *)
(* below 100 percent and high from 100 percent on.                         *)
(***************************************************************************)
C13_DurationIncrease ==
    a_pc = "return" /\ DOMAIN a_baseline # {} =>
        LET hits == Reported("duration_increase")
            b    == a_baseline.avg_duration
            cur  == CurrentSum("duration")
        IN  /\ hits # {} <=> (b[1] > 0 /\ IncreaseOver(cur, b, 50) > 0)
            /\ Cardinality(hits) <= 1
            /\ \A i \in hits :
                   a_result[i].severity =
                       IF IncreaseOver(cur, b, 100) < 0 THEN "medium" ELSE "high"

\* an increase of exactly 100 percent has been reported as high
C13_Witness ==
    /\ a_pc = "return" /\ DOMAIN a_baseline # {}
    /\ a_baseline.avg_duration[1] > 0
    /\ IncreaseOver(CurrentSum("duration"), a_baseline.avg_duration, 100) = 0
    /\ \E i \in Reported("duration_increase") : a_result[i].severity = "high"

(***************************************************************************)
(* The tally of detect_flaky_tests, taken over the history given: the      *)
(* entries inside the window, the failure descriptions they hold, the      *)
(* number of descriptions per key and per test name.                       *)
(***************************************************************************)
Windowed     == {i \in 1..Len(f_history) : f_history[i].timestamp > f_now - f_days}
WindowedRuns == Cardinality(Windowed)
FailureAt    == UNION {{<<i, j>> : j \in 1..Len(f_history[i].failures)} : i \in Windowed}
KeyAt(at)    == test_key(f_history[at[1]].failures[at[2]])
NameAt(at)   == f_history[at[1]].failures[at[2]].name
Occurrences(key)   == Cardinality({at \in FailureAt : KeyAt(at) = key})
NameFailures(name) == Cardinality({at \in FailureAt : NameAt(at) = name})
InRange(n)   == 5 * n >= WindowedRuns /\ 5 * n <= 4 * WindowedRuns
Candidates   == {f_result[i] : i \in 1..Len(f_result)}

C15_FlakySeverity ==
    f_pc = "return" =>
        \A c \in Candidates :
            c.severity = IF 2 * c.failures >= c.total_runs THEN "high" ELSE "medium"

\* a candidate that failed in exactly half of the runs is high, and
\* another one of the same result is medium
C15_Witness ==
    /\ f_pc = "return"
    /\ \E c \in Candidates : 2 * c.failures = c.total_runs /\ c.severity = "high"
    /\ \E c \in Candidates : 2 * c.failures < c.total_runs /\ c.severity = "medium"

(***************************************************************************)
(* C16 as the specification states it: with 5 entries in the window a      *)
(* test that fails in 2 of them is flaky with severity medium, one that    *)
(* fails in 4 of them is flaky with severity medium, one that fails in     *)
(* all 5 is not reported.                                                  *)
(***************************************************************************)
SeverityOf(key) == {c.severity : c \in {d \in Candidates : d.test = key}}

C17_KeyedByName ==
    f_pc = "return" /\ Len(f_history) >= 3 /\ WindowedRuns >= 3 =>
        \A at \in FailureAt :
            InRange(NameFailures(NameAt(at))) =>
                \E c \in Candidates :
                    /\ c.failures = NameFailures(NameAt(at))
                    /\ \A other \in FailureAt :
                           NameAt(other) = NameAt(at) => KeyAt(other) = c.test

(***************************************************************************)
(* C18: aggregation is a pure reduction.  Each total is the sum of the     *)
(* per-file values, total_tests is the sum of the passed, failed and       *)
(* skipped totals, success_rate is total_passed/total_tests*100 and 0      *)
(* for no tests; the per-file statistics stay as they are; the same        *)
(* statistics aggregated twice give the same totals.                       *)
(***************************************************************************)
GivenSum(k) == SumOver(1..Len(g_stats), [i \in 1..Len(g_stats) |-> g_stats[i][k]])

TotalsAreSums(t) ==
    /\ t.files_analyzed = Len(g_stats)
    /\ t.total_passed = GivenSum("passed")
    /\ t.total_failed = GivenSum("failed")
    /\ t.total_skipped = GivenSum("skipped")
    /\ t.api_errors = GivenSum("api_errors")
    /\ t.timeout_errors = GivenSum("timeout_errors")
    /\ t.assertion_errors = GivenSum("assertion_errors")
    /\ t.connection_errors = GivenSum("connection_errors")
    /\ t.total_tests = t.total_passed + t.total_failed + t.total_skipped
    /\ t.success_rate[2] > 0
    /\ t.success_rate[1] * t.total_tests = 100 * t.total_passed * t.success_rate[2]
    /\ t.total_tests = 0 => t.success_rate[1] = 0

TotalsAgree ==
    /\ \A k \in 1..Len(g_totals) : TotalsAreSums(g_totals[k])
    /\ Len(g_totals) >= 2 =>
           /\ g_totals[1] = g_totals[2]
           \* the text of the rate is the rate to two decimals
           /\ 2 * g_totals[1].success_rate_text * g_totals[1].success_rate[2]
                  - 2 * 100 * g_totals[1].success_rate[1] <= g_totals[1].success_rate[2]
           /\ 2 * 100 * g_totals[1].success_rate[1]
                  - 2 * g_totals[1].success_rate_text * g_totals[1].success_rate[2]
                  <= g_totals[1].success_rate[2]

C18_PureReduction == []TotalsAgree /\ [][g_stats' = g_stats]_vars

\* two files with passed, failed and skipped tests have been aggregated
\* three times
C18_Witness ==
    /\ g_pc = "done" /\ Len(g_totals) = 3 /\ Len(g_stats) = 2
    /\ g_stats[1] # g_stats[2]
    /\ g_totals[3].total_passed > 0 /\ g_totals[3].total_failed > 0
    /\ g_totals[3].total_skipped > 0
    /\ \E i \in 1..2 : g_stats[i].tests # <<>>

(***************************************************************************)
(* C19: when a log file of the run is missing or unreadable,               *)
(* analyze_log_file yields no result for it without raising; the file      *)
(* adds nothing to all_stats, every other file is analysed and entered     *)
(* in order, and the run goes on.                                          *)
(***************************************************************************)
Readable(p) == {i \in 1..Len(args[p].files) : args[p].files[i].exists}

C19_MissingFileSkipped ==
    \A p \in Procs :
        Times(p, "analyze") = 1 =>
            /\ Len(all_stats[p]) = Cardinality(Readable(p))
            /\ \A i \in Readable(p) :
                   all_stats[p][Cardinality({j \in Readable(p) : j <= i})]
                       = analyze_log_file(args[p].files[i])[1]
            /\ \A i \in 1..Len(args[p].files) :
                   i \notin Readable(p) => analyze_log_file(args[p].files[i]) = None
            \* no exception leaves the analysis: a run ends early only later
            /\ pc[p] = "crashed" => Times(p, "load_history") >= 1
            /\ pc[p] = "done" => Times(p, "report") = 1

\* a run over one readable and one missing file has come to its end with
\* the statistics of the readable file alone, and has saved them
C19_Witness ==
    \E p \in Procs :
        /\ ReachedEnd(p)
        /\ Len(args[p].files) = 2 /\ Cardinality(Readable(p)) = 1
        /\ Len(all_stats[p]) = 1
        /\ Times(p, "write_history") = 1
        /\ hist_file.entries[Len(hist_file.entries)].files_analyzed = 1

(***************************************************************************)
(* C20 as the specification states it: whenever no input file yields a     *)
(* result (the path is missing, the directory holds no log file, every     *)
(* file is unreadable) the run exits with status 0 and a message that      *)
(* there is nothing to analyse, and does nothing else.  The code exits     *)
(* with status 1 for a missing path and runs the whole pipeline on empty   *)
(* statistics when every file is unreadable.                               *)
(***************************************************************************)
ZeroResults(p) ==
    /\ args[p].source # "none"
    /\ args[p].source = "nopath" \/ \A i \in 1..Len(args[p].files) : ~args[p].files[i].exists

C20_NothingToAnalyze ==
    \A p \in Procs :
        ZeroResults(p) =>
            /\ exit_code[p] \in {-1, 0}
            /\ Times(p, "report") = 0
            /\ anomalies[p] = <<>>
            /\ pc[p] = "done" => events[p] = <<"no_log_files_found">>

(***************************************************************************)
(* C21 as the specification states it: in a run that reads the log from    *)
(* standard input the temporary file no longer exists when the process     *)
(* exits, on every exit path.  The code unlinks the file only at the end   *)
(* of main, which an uncaught exception does not reach.                    *)
(***************************************************************************)
C21_TempFileRemoved ==
    \A p \in Procs :
        args[p].source = "stdin" /\ pc[p] \in {"done", "crashed"} => ~temp_file[p]

(***************************************************************************)
(* C22: a run with --no-save leaves the history file exactly as it was: no *)
(* step of the run creates it, appends to it or prunes it.  The baseline,  *)
(* the anomalies and the flaky tests of the run are still those computed   *)
(* from the history the file holds.                                        *)
(***************************************************************************)
NoSaveRun(p) == args[p] # NoArgs /\ args[p].no_save /\ pc[p] # "idle"

C22_ComputedFromHistory(p) ==
    /\ Times(p, "load_history") >= 1 /\ pc[p] # "crashed" =>
           history[p] = load_historical_data(hist_file).value
    /\ Times(p, "calculate_baseline") = 1 =>
           \E day \in 0..MaxClock :
               baseline[p] = calculate_baseline(history[p], DEFAULT_DAYS, day)
    /\ Times(p, "detect") = 1 /\ ~args[p].basic =>
           /\ anomalies[p] = detect_anomalies(all_stats[p], baseline[p])
           /\ \E day \in 0..MaxClock :
                  flaky_tests[p] = detect_flaky_tests(history[p], DEFAULT_DAYS, day)

C22_NoSaveLeavesHistory ==
    /\ [](\A p \in Procs : NoSaveRun(p) => C22_ComputedFromHistory(p))
    /\ [][\A p \in Procs : NoSaveRun(p) => hist_file' = hist_file]_vars

\* a --no-save run with results has ended; the file holds entries that would
\* have been pruned, and the baseline and an anomaly came out of them
C22_Witness ==
    \E p \in Procs :
        /\ NoSaveRun(p) /\ pc[p] = "done" /\ ReachedEnd(p)
        /\ all_stats[p] # <<>>
        /\ hist_file.status = "ok"
        /\ NewerThan(hist_file.entries, clock, RETENTION_DAYS) # hist_file.entries
        /\ baseline[p] # EmptyDict
        /\ anomalies[p] # <<>>

(***************************************************************************)
(* The commit messages as they are meant, read off the parts they are      *)
(* written from.                                                           *)
(***************************************************************************)
FirstLineBlank == msg_parts.lead = <<"\n">>
\* the head is followed by a blank and something after it
HasSubject     ==
    \/ msg_parts.sep = <<" ">> /\ (msg_parts.subject # <<>> \/ msg_parts.ref.text # <<>>)
    \/ msg_parts.sep = <<>> /\ msg_parts.subject = <<>> /\ msg_parts.ref.text # <<>>
\* the head is followed by a blank
HasBlank       ==
    \/ msg_parts.sep = <<" ">>
    \/ msg_parts.sep = <<>> /\ msg_parts.subject = <<>> /\ msg_parts.ref.text # <<>>
MeantPrefix    ==
    \/ msg_parts.head.prefix = "default" /\ environ.ALLOWED_PREFIXES = <<>>
    \/ msg_parts.head.prefix = "env" /\ environ.ALLOWED_PREFIXES # <<>>
MeantCC        == msg_parts.head.cc /\ HasSubject
MeantRef       == msg_parts.ref.is_ref \/ msg_parts.second.is_ref
Waived         == allow_no_issue \/ environ.ALLOW_NO_ISSUE = <<"T", "R", "U", "E">>
WellFormed     == ~FirstLineBlank /\ (MeantPrefix \/ MeantCC) /\ (Waived \/ MeantRef)

(***************************************************************************)
(* C23 as the specification states it: a message is accepted exactly when  *)
(* its first line starts with 'Merge ', 'Revert ' or 'Release ', or when   *)
(* the first line, leading whitespace stripped, starts with an allowed     *)
(* prefix or has the Conventional Commits form and, unless waived, the     *)
(* message holds an issue reference.                                       *)
(***************************************************************************)
C23_AcceptedExactlyWhen ==
    msg_pc = "return" =>
        (msg_ok <=>
            \/ msg_parts.lead = <<>> /\ msg_parts.head.auto /\ HasBlank
            \/ WellFormed)

(***************************************************************************)
(* C23, amended: a message is accepted exactly when its first line with    *)
(* the whitespace at both ends stripped starts with 'Merge ', 'Revert ' or *)
(* 'Release ', or when that stripped line starts with an allowed prefix    *)
(* (in any case, with or without a space after the colon) or has the       *)
(* Conventional Commits form and, unless waived, the message holds an      *)
(* issue reference.                                                        *)
(***************************************************************************)
C23_AcceptedWhenStripped ==
    msg_pc = "return" =>
        (msg_ok <=>
            \/ ~FirstLineBlank /\ msg_parts.head.auto /\ HasSubject
            \/ WellFormed)

\* ' feature:x #12' went through, with neither waiver
C23_Witness ==
    /\ msg_pc = "return" /\ msg_ok
    /\ msg_parts.lead = <<" ">> /\ msg_parts.sep = <<>>
    /\ msg_parts.head.prefix = "default" /\ ~msg_parts.head.cc
    /\ msg_parts.head.text = lower(msg_parts.head.text)
    /\ ~Waived

(***************************************************************************)
(* C24 as the specification states it: the message '[HOTFIX] Critical      *)
(* security fix', which starts with a bracketed tag and has no allowed     *)
(* prefix and no issue reference, is accepted.                             *)
(***************************************************************************)
C24_BracketTagAccepted ==
    msg_pc = "return" /\ msg = HotfixExample => msg_ok

(***************************************************************************)
(* The issues as they are meant, read off the labels and the lines they    *)
(* are written from.                                                       *)
(***************************************************************************)
LabelsOf(choices) == UNION {{c[k] : k \in 1..Len(c)} : c \in choices}
Carries(choices)  == \E i \in 1..Len(issue.labels) : issue.labels[i] \in LabelsOf(choices)
AllCategories     ==
    /\ Carries(PriorityChoices) /\ Carries(TypeChoices)
    /\ Carries(AreaChoices) /\ Carries(StatusChoices)
\* the priority label of the issue, the first one if it carries several
PriorityLabel     ==
    issue.labels[CHOOSE i \in 1..Len(issue.labels) :
        /\ issue.labels[i] \in LabelsOf(PriorityChoices)
        /\ \A j \in 1..(i - 1) : issue.labels[j] \notin LabelsOf(PriorityChoices)]
StrictEnforcement ==
    \/ environ.AC_STRICT_MODE = "strict"
    \/ /\ environ.AC_STRICT_MODE = "auto"
       /\ \/ Carries(PriorityChoices) /\ PriorityLabel \in {<<"P", "1">>, <<"p", "2">>}
          \/ Carries(EnforceChoices)
HasLine(line)     == \E i \in 1..Len(issue.body) : issue.body[i] = line
Shortcomings      ==
    \/ HasLine(OpenBox)
    \/ environ.REQUIRE_SECTIONS # <<>> /\ ~HasLine(SummaryLine)
    \/ environ.REQUIRE_VERIFICATION = <<"T", "r", "u", "e">> /\ ~HasLine(VerifiedLine)

(***************************************************************************)
(* C27: an issue that lacks one of the four label categories (priority,    *)
(* type, area, status) fails in every strict mode.  With all four, an      *)
(* unchecked box, a missing required section or a missing verification     *)
(* section makes it fail exactly when enforcement is strict: always in     *)
(* mode strict, never in mode off, in mode auto exactly when the priority  *)
(* label is P0, P1 or P2 or the issue carries enforce:strict; otherwise    *)
(* the issue is accepted.                                                  *)
(***************************************************************************)
C27_ClosurePolicy ==
    issue_pc = "return" /\ issue.gh = "ok" =>
        IF ~AllCategories
        THEN ~closure_ok
        ELSE closure_ok <=> ~(StrictEnforcement /\ Shortcomings)

\* mode auto, labels P3 and P1 in this order and no enforce:strict, an unchecked
\* box, no summary although required: accepted with warnings
C27_Witness ==
    /\ issue_pc = "return" /\ issue.gh = "ok" /\ closure_ok
    /\ AllCategories /\ environ.AC_STRICT_MODE = "auto"
    /\ Len(issue.labels) = 5
    /\ HasLine(OpenBox) /\ ~HasLine(SummaryLine) /\ environ.REQUIRE_SECTIONS # <<>>

(***************************************************************************)
(* C26: extract_test_details gives at most one record per line of the log. *)
(* The patterns are tried in the order passed, failed with a duration,     *)
(* FAIL format, skipped, and the first of them that matches the line       *)
(* decides the status and the name; a line none of them matches adds no    *)
(* record and is no error.                                                 *)
(***************************************************************************)
PatternOrder == <<"passed", "failed", "failed", "skipped">>

\* the patterns that match the line, as positions of PatternOrder
Matching(line) == {i \in 1..Len(PatternOrder) : MatchPattern(i - 1, line) # <<>>}
FirstMatching(line) == CHOOSE i \in Matching(line) : \A j \in Matching(line) : i <= j

C26_FirstPatternWins ==
    parse_pc = "return" /\ stats # None =>
        LET content == log_file.content
            tests   == stats[1].tests
            matched == SelectSeqIdx(content, {i \in 1..Len(content) : Matching(content[i]) # {}})
        IN  /\ Len(tests) <= Len(content)
            /\ Len(tests) = Len(matched)
            /\ \A k \in 1..Len(matched) :
                   /\ tests[k].status = PatternOrder[FirstMatching(matched[k])]
                   /\ tests[k].name = MatchPattern(FirstMatching(matched[k]) - 1, matched[k])[1]

\* a line that the failed and the passed pattern both match, the failed one
\* further left, gave one passed record; a line without a match gave none
C26_Witness ==
    /\ parse_pc = "return" /\ stats # None
    /\ Len(log_file.content) = 2
    /\ Cardinality(Matching(log_file.content[1])) = 2
    /\ log_file.content[1][1] = "CROSS"
    /\ Matching(log_file.content[2]) = {}
    /\ Len(stats[1].tests) = 1
    /\ stats[1].tests[1].status = "passed"

(***************************************************************************)
(* C28: every connection_errors_spike that detect_anomalies reports has    *)
(* severity high: the threshold of the connection errors, 200 percent, is  *)
(* the bound from which an error spike is high, so no connection spike is  *)
(* ever medium.                                                            *)
(***************************************************************************)
C28_ConnectionSpikeHigh ==
    a_pc = "return" =>
        \A i \in Reported("connection_errors_spike") :
            /\ a_result[i].severity = "high"
            /\ a_result[i].severity # "medium"
            /\ RatGT(a_result[i].increase_pct, RatInt(200))

\* connection errors more than 200 percent above the baseline mean are
\* reported, and as high
C28_Witness ==
    /\ a_pc = "return"
    /\ \E i \in Reported("connection_errors_spike") : a_result[i].severity = "high"
    /\ IncreaseOver(CurrentSum("connection_errors"), a_baseline.avg_connection_errors, 200) > 0

(***************************************************************************)
(* C30: the success rate of the report, passed / total * 100 or 0 for a    *)
(* total of 0, the success rate of the history entry and the success rate  *)
(* detect_anomalies takes for the run, both passed / max(total, 1) * 100,  *)
(* are the same number for every all_stats, a total of 0 included.         *)
(***************************************************************************)
C30_SuccessRatesAgree ==
    g_pc = "done" =>
        LET report  == g_totals[1].success_rate
            entry   == g_totals[3].success_rate
            current == current_totals(g_stats).success_rate
        IN  /\ report = entry
            /\ entry = current
            /\ GivenSum("passed") + GivenSum("failed") + GivenSum("skipped") = 0
                   => current = RatInt(0)

\* two files without any test: a total of 0, and the three rates are 0
C30_Witness ==
    /\ g_pc = "done" /\ Len(g_stats) = 2 /\ Len(g_totals) = 3
    /\ GivenSum("passed") + GivenSum("failed") + GivenSum("skipped") = 0
    /\ g_totals[1].success_rate = RatInt(0)

(***************************************************************************)
(* C25 as the specification states it: the enhanced report shows at most   *)
(* 5 flaky tests and at most 10 failure lines, and whenever it shows fewer *)
(* of them than there are it carries a line '... and N more' with N the    *)
(* number not shown.                                                       *)
(***************************************************************************)
LinesOf(kind)  == {i \in 1..Len(r_report) : r_report[i].kind = kind}
FailuresGiven  == SumOver(1..Len(r_stats), [i \in 1..Len(r_stats) |-> Len(r_stats[i].failures)])

C25_FlakyTruncation ==
    r_pc = "return" =>
        LET shown == Cardinality(LinesOf("flaky_test"))
        IN  /\ shown <= 5
            /\ shown < Len(r_flaky) =>
                   \E i \in LinesOf("flaky_more") : r_report[i].n = Len(r_flaky) - shown

C25_FailureTruncation ==
    r_pc = "return" =>
        LET shown == Cardinality(LinesOf("failure"))
        IN  /\ shown <= 10
            /\ shown < FailuresGiven =>
                   \E i \in LinesOf("failures_more") : r_report[i].n = FailuresGiven - shown

C25_TruncationNotice == C25_FlakyTruncation /\ C25_FailureTruncation

(***************************************************************************)
(* C29: over runs that start from a directory without history, the first   *)
(* run has an empty baseline and reports no anomaly; a run reports flaky   *)
(* tests only if at least 3 earlier runs have saved entries that lie in    *)
(* its flaky window; and the flaky tests of a run are those of the entries *)
(* the earlier runs saved, the failures of the run itself not among them.  *)
(***************************************************************************)
\* the entries saved before the run of p: the file without the entry of p
EarlierEntries(p) ==
    IF Times(p, "write_history") = 1
    THEN SubSeq(hist_file.entries, 1, Len(hist_file.entries) - 1)
    ELSE hist_file.entries

InWindow(p, day) ==
    {i \in 1..Len(EarlierEntries(p)) : EarlierEntries(p)[i].timestamp > day - DEFAULT_DAYS}

C29_FreshHistory ==
    \A p \in Procs :
        Times(p, "detect") = 1 =>
            /\ runs = 1 => baseline[p] = EmptyDict /\ anomalies[p] = <<>>
            /\ flaky_tests[p] # <<>> =>
                   /\ runs >= 4
                   /\ \E day \in {0, DEFAULT_DAYS} :
                          day <= clock /\ Cardinality(InWindow(p, day)) >= 3
            /\ \E day \in {0, DEFAULT_DAYS} :
                   /\ day <= clock
                   /\ flaky_tests[p] = detect_flaky_tests(EarlierEntries(p), DEFAULT_DAYS, day)

\* the fourth run, over a log with a failure, after three saved runs of which
\* one had the failure too: the test is reported as flaky
C29_Witness ==
    \E p \in Procs :
        /\ ReachedEnd(p) /\ runs = 4
        /\ flaky_tests[p] # <<>>
        /\ Len(EarlierEntries(p)) = 3
        /\ all_stats[p][1].failed > 0

\* three saved runs without a failure, then a run with one: nothing is flaky
C29_WitnessOwnFailure ==
    \E p \in Procs :
        /\ ReachedEnd(p) /\ runs = 4
        /\ Len(EarlierEntries(p)) = 3 /\ clock = 0
        /\ \A i \in 1..3 : EarlierEntries(p)[i].failures = <<>>
        /\ all_stats[p][1].failed > 0
        /\ flaky_tests[p] = <<>>

=============================================================================
